---- MODULE Spec2Model ----
(***************************************************************************)
(* A model of ella.to/sse: the frame codec (Message.Read), the Pusher      *)
(* (rawPusher: mutex, closed flag, keepalive timer goroutines), the        *)
(* stream decoder (Parse / parseMessage / readLine) and the Receiver       *)
(* (receiver.Receive over the unbuffered channel of Parse).                *)
(*                                                                         *)
(* Bytes are one-character strings, byte slices are sequences of them.     *)
(***************************************************************************)
EXTENDS Integers, Sequences, FiniteSets, Bags, TLC

(***************************************************************************)
(* Bounds of the model.                                                    *)
(***************************************************************************)
\* application goroutines calling Push / Close on the one Pusher
NumCallers == 2
\* Push invocations (application pushes and timer expiries) started in a run
MaxInvocations == 3
\* failures of the underlying writer in a run
MaxWriteFails == 1
\* size of the buffer io.Copy reads into (32 KiB in the Go library, scaled down
\* so that a frame needs more than one Write)
CopyBufSize == 8

(***************************************************************************)
(* Program constants.                                                      *)
(***************************************************************************)
\* msg.go: estimatedSize <= 64 selects the stack-buffer path of Message.Read
SmallMax == 64
\* msg.go: "+ 20 // 20 for prefixes and newlines"
EstimateOverhead == 20

Min(a, b) == IF a < b THEN a ELSE b

NL == "\n"
IdPrefix == <<"i", "d", ":", " ">>
EventPrefix == <<"e", "v", "e", "n", "t", ":", " ">>
DataPrefix == <<"d", "a", "t", "a", ":", " ">>
PingFrame == <<":", " ", "p", "i", "n", "g", NL, NL>>
DoneEvent == <<"d", "o", "n", "e">>

(***************************************************************************)
(* msg.go: Message with string fields ("" is absent) and the reader state.  *)
(***************************************************************************)
NewMessage(id, event, data) ==
    [Id |-> id, Event |-> event, Data |-> data, readerRemaining |-> 0, buffer |-> <<>>]

NewPingEvent == NewMessage(<<>>, <<>>, <<>>)

\* an encoder that writes the event line first
FieldBytesEventFirst(m) ==
    (IF m.Event # <<>> THEN EventPrefix \o m.Event \o <<NL>> ELSE <<>>)
    \o (IF m.Id # <<>> THEN IdPrefix \o m.Id \o <<NL>> ELSE <<>>)
    \o (IF m.Data # <<>> THEN DataPrefix \o m.Data \o <<NL>> ELSE <<>>)

\* The bytes both branches of Message.Read append for the fields of m.
FieldBytes(m) ==
    (IF m.Id # <<>> THEN IdPrefix \o m.Id \o <<NL>> ELSE <<>>)
    \o (IF m.Event # <<>> THEN EventPrefix \o m.Event \o <<NL>> ELSE <<>>)
    \o (IF m.Data # <<>> THEN DataPrefix \o m.Data \o <<NL>> ELSE <<>>)

\* ... followed by the ping frame when nothing was appended, a newline otherwise.
FrameBytes(m) ==
    IF Len(FieldBytes(m)) = 0 THEN PingFrame ELSE FieldBytes(m) \o <<NL>>

EstimatedSize(m) == Len(m.Id) + Len(m.Event) + Len(m.Data) + EstimateOverhead

\* a Read whose small-message path forgets what did not fit into b
MessageReadNoFallback(m, n) ==
    LET buf == IF m.readerRemaining = 0 THEN FrameBytes(m) ELSE m.buffer
        k == Min(n, Len(buf))
        rest == SubSeq(buf, k + 1, Len(buf))
    IN  IF m.readerRemaining = 0 /\ EstimatedSize(m) <= SmallMax
        THEN [m |-> m, out |-> SubSeq(buf, 1, k),
              err |-> IF k < Len(buf) THEN "nil" ELSE "EOF"]
        ELSE [m |-> [m EXCEPT !.buffer = rest, !.readerRemaining = Len(rest)],
              out |-> SubSeq(buf, 1, k),
              err |-> IF Len(rest) = 0 THEN "EOF" ELSE "nil"]

\* Message.Read(b) with len(b) = n: the message afterwards, the bytes copied
\* into b and the error returned.
MessageRead(m, n) ==
    IF m.readerRemaining = 0 /\ EstimatedSize(m) <= SmallMax
    THEN LET buf == FrameBytes(m)
             k == Min(n, Len(buf))
         IN  IF k < Len(buf)
             THEN [m |-> [m EXCEPT !.buffer = SubSeq(buf, k + 1, Len(buf)),
                                   !.readerRemaining = Len(buf) - k],
                   out |-> SubSeq(buf, 1, k), err |-> "nil"]
             ELSE [m |-> m, out |-> buf, err |-> "EOF"]
    ELSE LET buf == IF m.readerRemaining = 0 THEN FrameBytes(m) ELSE m.buffer
             k == Min(n, Len(buf))
             rest == SubSeq(buf, k + 1, Len(buf))
         IN  [m |-> [m EXCEPT !.buffer = rest, !.readerRemaining = Len(rest)],
              out |-> SubSeq(buf, 1, k),
              err |-> IF Len(rest) = 0 THEN "EOF" ELSE "nil"]

\* the first position of b at or after i that holds ':' or a newline,
\* Len(b) + 1 when there is none (Write, lines 160-162)
RECURSIVE NameEnd(_, _)
NameEnd(b, i) ==
    IF i > Len(b) THEN i
    ELSE IF b[i] = ":" \/ b[i] = NL THEN i
    ELSE NameEnd(b, i + 1)

\* the first position of b at or after i that holds a newline, Len(b) + 1 when
\* there is none (Write, lines 179-181)
RECURSIVE ValueEnd(_, _)
ValueEnd(b, i) ==
    IF i > Len(b) THEN i
    ELSE IF b[i] = NL THEN i
    ELSE ValueEnd(b, i + 1)

ClearFields(m) == [m EXCEPT !.Id = <<>>, !.Event = <<>>, !.Data = <<>>]

\* the loop of Message.Write, lines 157-202, from position i (1-based)
RECURSIVE writeLoop(_, _, _)
writeLoop(b, i, m) ==
    IF i > Len(b) THEN m
    ELSE LET j == NameEnd(b, i)
         IN  IF j > Len(b) \/ b[j] = NL
             THEN writeLoop(b, j + 1, m)
             ELSE LET fieldName == SubSeq(b, i, j - 1)
                      v == IF j + 1 <= Len(b) /\ b[j + 1] = " " THEN j + 2 ELSE j + 1
                      k == ValueEnd(b, v)
                      value == SubSeq(b, v, k - 1)
                  IN  IF fieldName = <<"i", "d">>
                      THEN writeLoop(b, k + 1, [m EXCEPT !.Id = value])
                      ELSE IF fieldName = <<"e", "v", "e", "n", "t">>
                      THEN IF value = <<"p", "i", "n", "g">>
                           THEN ClearFields(m)
                           ELSE writeLoop(b, k + 1, [m EXCEPT !.Event = value])
                      ELSE IF fieldName = <<"d", "a", "t", "a">>
                      THEN writeLoop(b, k + 1, [m EXCEPT !.Data = value])
                      ELSE writeLoop(b, k + 1, m)

\* Message.Write(b), lines 151-205: the message afterwards
MessageWrite(m, b) == writeLoop(b, 1, ClearFields(m))

(***************************************************************************)
(* State.                                                                  *)
(***************************************************************************)
VARIABLES
    \* rawPusher (unnamed/part_003)
    timeout,        \* p.timeout: 0 or a positive duration
    closed,         \* p.closed
    mtx,            \* p.mtx: 0 when free, else the goroutine holding it
    clearTimeout,   \* p.clearTimeout: 0 when nil, else the timer it cancels
    pc,             \* where each goroutine is
    msg,            \* the *Message each goroutine pushes
    inv,            \* the Push invocation a goroutine is in (0: none)
    ret,            \* the last return to an application goroutine: the call and its error
    expired,        \* timers whose timer.C holds a value nobody has taken
    cancelled,      \* timers whose cancel channel is closed
    panicked,       \* close of a closed channel
    wire,           \* the bytes p.w received, each with the invocation that wrote it
    invLog,         \* per invocation: its goroutine and the frame its message encodes to
    wfails,         \* failures of the underlying writer so far
    started,        \* invocations started so far
    \* the stream a Receiver reads, Parse and receiver (receiver.go)
    src,            \* the io.ReadCloser: "open", "eof" (the writer ended it), "closed"
    script,         \* the segments (a gap, then a frame) the peer writes
    sent,           \* bytes of the script written so far
    rpos,           \* bytes of the wire the Parse goroutine has consumed
    ppc,            \* the Parse goroutine: "parse", "send", "closing", "exit"
    pmsg,           \* the record parseMessage returned
    pdone,          \* errors.Is(err, io.EOF)
    chClosed,       \* close(ch) has run
    rpc,            \* each Receive caller: "idle" or "wait" (in the select)
    ctxDone,        \* callers whose context is cancelled
    rres,           \* what each caller's last Receive returned
    delivered,      \* the records Receive returned, in order
    rhist,          \* what is known of the Receive calls so far: prev, the error of
                    \* the call before this one; eof, a call has returned io.EOF;
                    \* pre, the context of this call was cancelled when it was made
    \* the handler of TestPusherReceiver (sse_test.go)
    e2eN,           \* records the handler pushes
    e2eI,           \* records it has pushed
    \* the closure of NewHttpPusher (unnamed/part_003)
    flushed,        \* n: bytes of the wire flushed to the client; by: the
                    \* invocations after which out.Flush() has run
    \* the HTTP Receiver (NewHttpReceiver) and the server it talks to
    hmax,           \* WithMaxRetries: the maximum number of attempts of a Receive
    urlValid,       \* the target URL can be requested at all
    plan,           \* the server's answer to its 1st, 2nd, ... request
    bodyLen,        \* records in the body of a successful response
    requests,       \* requests the server has received
    hreq0,          \* requests the server had received when Receive was called
    attempts,       \* attempts of the current Receive
    hconn,          \* 0: no connection; k: bound to the body of request k
    hpos,           \* records of the bound body already returned
    hpc,            \* "idle", "connect", "backoff", "read"
    hres,           \* what the last Receive returned
    hcalls,         \* Receive calls made
    \* several callers of one HTTP Receiver
    hlock,          \* the exclusion of the connection state: 0 or its holder
    hcpc,           \* each caller: "idle", "enter", "connect", "read", "done"
    hcres,          \* what each caller's Receive returned
    \* the buffer pool of msg.go and the messages that use it
    pool,           \* the buffers bufferPool holds: a bag
    pm,             \* the messages: lengths of the fields, reader state, buffer
    allocs          \* buffers the pool's New has made

pusherVars == <<timeout, closed, mtx, clearTimeout, pc, msg, inv, ret, expired,
                cancelled, panicked, wire, invLog, wfails, started>>
recvVars == <<src, script, sent, rpos, ppc, pmsg, pdone, chClosed, rpc, ctxDone, rres,
              delivered, rhist>>
e2eVars == <<e2eN, e2eI, flushed>>
hcVars == <<hlock, hcpc, hcres>>
hrVars == <<hmax, urlValid, plan, bodyLen, requests, hreq0, attempts, hconn, hpos, hpc,
            hres, hcalls, hlock, hcpc, hcres>>
poolVars == <<pool, pm, allocs>>
vars == <<pusherVars, recvVars, e2eVars, hrVars, poolVars>>

Callers == 1..NumCallers
Invs == 1..MaxInvocations
\* the goroutine setTimeout starts for the timer armed by invocation i
TimerOf(i) == NumCallers + i
TimerThreads == {TimerOf(i) : i \in Invs}
Threads == Callers \cup TimerThreads

IsCaller(t) == t \in Callers

Digits == <<"1", "2", "3", "4", "5", "6", "7", "8", "9">>

\* the fields an application goroutine gives its message for the n-th push of
\* the run, as the handler of sse_test.go does ("id-%d", "data-%d")
AppMessage(n) == NewMessage(<<Digits[n]>>, <<>>, <<"d", Digits[n]>>)

Tagged(bytes, i) == [k \in 1..Len(bytes) |-> [b |-> bytes[k], inv |-> i]]

\* where a goroutine is after its Push or Close returned
Returned(t) == IF IsCaller(t) THEN "idle" ELSE "exit"

\* ret after goroutine t got e from Push or Close; ping (line 69) drops what
\* Push returns, and its message is garbage once Push has returned
Return(t, op, e) == IF IsCaller(t) THEN [op |-> op, err |-> e] ELSE ret
Dropped(t, m) == IF IsCaller(t) THEN m ELSE NewPingEvent

(***************************************************************************)
(* rawPusher (unnamed/part_003, lines 14-79) and setTimeout (115-140).      *)
(* Waiting for the mutex is the action not being enabled: an action of a    *)
(* goroutine that starts with p.mtx.Lock() happens when the lock is free.   *)
(***************************************************************************)
\* a mutex that excludes nobody
LockNoExclusion(t) == TRUE

\* p.mtx.Lock() returns for goroutine t
Lock(t) == mtx = 0

\* a cancel function that does nothing
CancelNothing(i) == UNCHANGED <<cancelled, panicked>>

\* the cancel function setTimeout returned: close(cancel)
CancelTimer(i) ==
    /\ cancelled' = cancelled \cup {i}
    /\ panicked' = (panicked \/ i \in cancelled)

\* a Push that does not look at p.closed
PushIgnoresClosed == FALSE

\* "if p.closed" in Push
PushSeesClosed == closed

\* "if p.closed" in ping
PingSeesClosed == closed

\* the fields of f assigned to the message m (its reader state is kept)
Assign(m, f) == [m EXCEPT !.Id = f.Id, !.Event = f.Event, !.Data = f.Data]

\* a Push that returns nil on a closed Pusher
PushClosedSilently(t, m) ==
    /\ Lock(t)
    /\ PushSeesClosed
    /\ msg' = [msg EXCEPT ![t] = Dropped(t, m)]
    /\ ret' = Return(t, "Push", "nil")
    /\ pc' = [pc EXCEPT ![t] = Returned(t)]
    /\ UNCHANGED <<timeout, closed, mtx, clearTimeout, inv, expired, cancelled,
                   panicked, wire, invLog, wfails>>

\* Push, lines 23-28, by goroutine t with message m: the Pusher is closed
PushClosed(t, m) ==
    /\ Lock(t)
    /\ PushSeesClosed
    /\ msg' = [msg EXCEPT ![t] = Dropped(t, m)]
    /\ ret' = Return(t, "Push", "ErrClosedPipe")
    /\ pc' = [pc EXCEPT ![t] = Returned(t)]
    /\ UNCHANGED <<timeout, closed, mtx, clearTimeout, inv, expired, cancelled,
                   panicked, wire, invLog, wfails>>

\* a Push that arms a timer whatever the timeout
TimerAlwaysArmed == TRUE

\* "if p.timeout > 0", line 30 (and "if delay <= 0" of setTimeout, line 116)
TimerArmed == timeout > 0

\* Push, lines 23-35, by goroutine t with message m: the lock is taken, the
\* Pusher is open, the pending timer is cancelled and a new one armed
PushEnter(t, m) ==
    /\ Lock(t)
    /\ ~PushSeesClosed
    /\ msg' = [msg EXCEPT ![t] = m]
    /\ LET i == Len(invLog) + 1
       IN  /\ mtx' = t
           /\ inv' = [inv EXCEPT ![t] = i]
           /\ invLog' = Append(invLog, [th |-> t, frame |-> FrameBytes(m),
                                         clean |-> m.readerRemaining = 0])
           /\ IF TimerArmed
              THEN /\ IF clearTimeout # 0
                      THEN CancelTimer(clearTimeout)
                      ELSE UNCHANGED <<cancelled, panicked>>
                   /\ clearTimeout' = i
                   /\ pc' = [pc EXCEPT ![t] = "copy", ![TimerOf(i)] = "select"]
              ELSE /\ pc' = [pc EXCEPT ![t] = "copy"]
                   /\ UNCHANGED <<clearTimeout, cancelled, panicked>>
    /\ UNCHANGED <<timeout, closed, ret, expired, wire, wfails>>

\* an application goroutine calls Push on a closed Pusher (Push returns before
\* it looks at the message: the goroutine's message as it is stands for any)
AppPushClosed(c) ==
    /\ pc[c] = "idle"
    /\ PushClosed(c, msg[c])
    /\ UNCHANGED <<started, recvVars, e2eVars, hrVars, poolVars>>

\* an application goroutine assigns the fields of its message and calls Push
AppPush(c, f) ==
    /\ pc[c] = "idle"
    /\ started < MaxInvocations
    /\ started' = started + 1
    /\ PushEnter(c, Assign(msg[c], f))
    /\ UNCHANGED <<recvVars, e2eVars, hrVars, poolVars>>

\* ping, line 69: p.Push(NewPingEvent()) finds the Pusher closed
PingPushClosed(i) ==
    /\ pc[TimerOf(i)] = "push"
    /\ PushClosed(TimerOf(i), NewPingEvent)
    /\ UNCHANGED <<started, recvVars, e2eVars, hrVars, poolVars>>

\* ping, line 69: p.Push(NewPingEvent())
PingPush(i) ==
    /\ pc[TimerOf(i)] = "push"
    /\ PushEnter(TimerOf(i), NewPingEvent)
    /\ UNCHANGED <<started, recvVars, e2eVars, hrVars, poolVars>>

\* Push, lines 37-42: one round of io.Copy, msg.Read then a p.w.Write that succeeds;
\* after the last round Push unlocks and returns nil
CopyOk(t) ==
    /\ pc[t] = "copy"
    /\ LET r == MessageRead(msg[t], CopyBufSize)
       IN  /\ msg' = [msg EXCEPT ![t] = IF r.err = "EOF" THEN Dropped(t, r.m) ELSE r.m]
           /\ wire' = wire \o Tagged(r.out, inv[t])
           /\ IF r.err = "EOF"
              THEN /\ mtx' = 0
                   /\ ret' = Return(t, "Push", "nil")
                   /\ pc' = [pc EXCEPT ![t] = Returned(t)]
                   /\ inv' = [inv EXCEPT ![t] = 0]
              ELSE UNCHANGED <<mtx, ret, pc, inv>>
    /\ UNCHANGED <<timeout, closed, clearTimeout, expired, cancelled, panicked, invLog,
                   wfails, started>>
    /\ UNCHANGED <<recvVars, e2eVars, hrVars, poolVars>>

\* a Push that closes the Pusher when the writer fails
CopyFailCloses(t) ==
    /\ pc[t] = "copy"
    /\ wfails < MaxWriteFails
    /\ LET r == MessageRead(msg[t], CopyBufSize)
       IN  /\ msg' = [msg EXCEPT ![t] = Dropped(t, r.m)]
           /\ \E k \in {0, Len(r.out) - 1} :
                wire' = wire \o Tagged(SubSeq(r.out, 1, k), inv[t])
    /\ wfails' = wfails + 1
    /\ mtx' = 0
    /\ closed' = TRUE
    /\ ret' = Return(t, "Push", "werr")
    /\ pc' = [pc EXCEPT ![t] = Returned(t)]
    /\ inv' = [inv EXCEPT ![t] = 0]
    /\ UNCHANGED <<timeout, clearTimeout, expired, cancelled, panicked, invLog,
                   started>>
    /\ UNCHANGED <<recvVars, e2eVars, hrVars, poolVars>>

\* Push, lines 37-40: a round of io.Copy whose p.w.Write fails after k bytes;
\* Push unlocks and returns the error
CopyFail(t) ==
    /\ pc[t] = "copy"
    /\ wfails < MaxWriteFails
    /\ LET r == MessageRead(msg[t], CopyBufSize)
       IN  /\ msg' = [msg EXCEPT ![t] = Dropped(t, r.m)]
           /\ \E k \in {0, Len(r.out) - 1} :
                wire' = wire \o Tagged(SubSeq(r.out, 1, k), inv[t])
    /\ wfails' = wfails + 1
    /\ mtx' = 0
    /\ ret' = Return(t, "Push", "werr")
    /\ pc' = [pc EXCEPT ![t] = Returned(t)]
    /\ inv' = [inv EXCEPT ![t] = 0]
    /\ UNCHANGED <<timeout, closed, clearTimeout, expired, cancelled, panicked, invLog,
                   started>>
    /\ UNCHANGED <<recvVars, e2eVars, hrVars, poolVars>>

\* a Close that neither looks at p.closed nor forgets the cancel function
CloseBodyAgain(c) ==
    /\ Lock(c)
    /\ closed' = TRUE
    /\ IF clearTimeout # 0
       THEN CancelTimer(clearTimeout)
       ELSE UNCHANGED <<cancelled, panicked>>
    /\ ret' = Return(c, "Close", "nil")
    /\ UNCHANGED <<timeout, mtx, clearTimeout, pc, msg, inv, expired, wire, invLog,
                   wfails, started>>

\* Close, lines 45-60, by goroutine c
CloseBody(c) ==
    /\ Lock(c)
    /\ IF closed
       THEN UNCHANGED <<closed, clearTimeout, cancelled, panicked>>
       ELSE /\ closed' = TRUE
            /\ IF clearTimeout # 0
               THEN CancelTimer(clearTimeout) /\ clearTimeout' = 0
               ELSE UNCHANGED <<clearTimeout, cancelled, panicked>>
    /\ ret' = Return(c, "Close", "nil")
    /\ UNCHANGED <<timeout, mtx, pc, msg, inv, expired, wire, invLog, wfails, started>>

\* an application goroutine calls Close
Close(c) ==
    /\ pc[c] = "idle"
    /\ CloseBody(c)
    /\ UNCHANGED <<recvVars, e2eVars, hrVars, poolVars>>

\* setTimeout, line 120: the delay of timer i passes, timer.C receives a value
TimerExpire(i) ==
    /\ pc[TimerOf(i)] = "select"
    /\ i \notin expired
    /\ started < MaxInvocations
    /\ started' = started + 1
    /\ expired' = expired \cup {i}
    /\ UNCHANGED <<timeout, closed, mtx, clearTimeout, pc, msg, inv, ret, cancelled,
                   panicked, wire, invLog, wfails>>
    /\ UNCHANGED <<recvVars, e2eVars, hrVars, poolVars>>

\* setTimeout, lines 127-129: the select takes timer.C and calls fn
TimerFire(i) ==
    /\ pc[TimerOf(i)] = "select"
    /\ i \in expired
    /\ pc' = [pc EXCEPT ![TimerOf(i)] = "ping"]
    /\ expired' = expired \ {i}
    /\ UNCHANGED <<timeout, closed, mtx, clearTimeout, msg, inv, ret,
                   cancelled, panicked, wire, invLog, wfails, started>>
    /\ UNCHANGED <<recvVars, e2eVars, hrVars, poolVars>>

\* setTimeout, lines 130-132: the select takes the closed cancel channel
TimerStop(i) ==
    /\ pc[TimerOf(i)] = "select"
    /\ i \in cancelled
    /\ pc' = [pc EXCEPT ![TimerOf(i)] = "exit"]
    /\ expired' = expired \ {i}
    /\ UNCHANGED <<timeout, closed, mtx, clearTimeout, msg, inv, ret,
                   cancelled, panicked, wire, invLog, wfails, started>>
    /\ UNCHANGED <<recvVars, e2eVars, hrVars, poolVars>>

\* a ping that calls Push with the lock held
PingKeepsLock(i) ==
    /\ pc[TimerOf(i)] = "ping"
    /\ Lock(TimerOf(i))
    /\ pc' = [pc EXCEPT ![TimerOf(i)] = IF PingSeesClosed THEN "exit" ELSE "push"]
    /\ mtx' = IF PingSeesClosed THEN 0 ELSE TimerOf(i)
    /\ UNCHANGED <<timeout, closed, clearTimeout, msg, inv, ret, expired,
                   cancelled, panicked, wire, invLog, wfails, started>>
    /\ UNCHANGED <<recvVars, e2eVars, hrVars, poolVars>>

\* ping, lines 62-68: lock, look at closed, unlock
Ping(i) ==
    /\ pc[TimerOf(i)] = "ping"
    /\ Lock(TimerOf(i))
    /\ pc' = [pc EXCEPT ![TimerOf(i)] = IF PingSeesClosed THEN "exit" ELSE "push"]
    /\ UNCHANGED <<timeout, closed, mtx, clearTimeout, msg, inv, ret, expired,
                   cancelled, panicked, wire, invLog, wfails, started>>
    /\ UNCHANGED <<recvVars, e2eVars, hrVars, poolVars>>

(***************************************************************************)
(* The stream decoder (receiver.go, lines 41-138). Its Message has pointer  *)
(* fields (sse.go, lines 65-69): <<>> is nil, <<v>> points to v.            *)
(***************************************************************************)
Nil == <<>>
Ptr(v) == <<v>>

\* &Message{}
EmptyRecord == [Id |-> Nil, Event |-> <<>>, Data |-> Nil]

IsAllAbsent(m) == m.Id = Nil /\ m.Event = <<>> /\ m.Data = Nil

\* the position of the first newline of bytes at or after k, 0 when there is none
RECURSIVE NextNL(_, _)
NextNL(bytes, k) ==
    IF k > Len(bytes) THEN 0
    ELSE IF bytes[k] = NL THEN k
    ELSE NextNL(bytes, k + 1)

\* readLine, lines 123-138, on a reader that has handed out pos bytes of
\* `bytes` and is in state s. err is "block" when the reader has no byte left
\* and is still open: the Read does not return.
readLine(bytes, pos, s) ==
    IF s = "closed"
    THEN [err |-> "closed", line |-> <<>>, pos |-> pos]
    ELSE LET j == NextNL(bytes, pos + 1)
         IN  IF j # 0
             THEN [err |-> "nil", line |-> SubSeq(bytes, pos + 1, j - 1), pos |-> j]
             ELSE [err |-> IF s = "eof" THEN "EOF" ELSE "block",
                   line |-> <<>>, pos |-> Len(bytes)]

\* bytes.Index(line, ": "), 1-based, 0 for -1
RECURSIVE IndexSep(_, _)
IndexSep(line, k) ==
    IF k + 1 > Len(line) THEN 0
    ELSE IF line[k] = ":" /\ line[k + 1] = " " THEN k
    ELSE IndexSep(line, k + 1)

\* a switch whose default case takes the value for data
SetFieldDefault(m, field, value) ==
    IF field = <<"i", "d">> THEN [m EXCEPT !.Id = <<value>>]
    ELSE IF field = <<"e", "v", "e", "n", "t">> THEN [m EXCEPT !.Event = value]
    ELSE [m EXCEPT !.Data = <<value>>]

\* a switch without the case "data"
SetFieldNoData(m, field, value) ==
    IF field = <<"i", "d">> THEN [m EXCEPT !.Id = <<value>>]
    ELSE IF field = <<"e", "v", "e", "n", "t">> THEN [m EXCEPT !.Event = value]
    ELSE m

\* the switch of parseMessage, lines 107-114
SetField(m, field, value) ==
    IF field = <<"i", "d">> THEN [m EXCEPT !.Id = Ptr(value)]
    ELSE IF field = <<"e", "v", "e", "n", "t">> THEN [m EXCEPT !.Event = value]
    ELSE IF field = <<"d", "a", "t", "a">> THEN [m EXCEPT !.Data = Ptr(value)]
    ELSE m

\* the loop of parseMessage, lines 71-115, from record m and lastMsgWasComment
RECURSIVE parseLoop(_, _, _, _, _)
parseLoop(bytes, s, m, lastMsgWasComment, pos) ==
    LET r == readLine(bytes, pos, s)
    IN  IF r.err # "nil"
        THEN [msg |-> m, err |-> r.err, pos |-> r.pos]
        ELSE IF Len(r.line) = 0
        THEN IF lastMsgWasComment
             THEN parseLoop(bytes, s, m, FALSE, r.pos)
             ELSE [msg |-> m, err |-> "nil", pos |-> r.pos]
        ELSE IF r.line[1] = ":"
        THEN parseLoop(bytes, s, m, TRUE, r.pos)
        ELSE LET index == IndexSep(r.line, 1)
             IN  IF index = 0
                 THEN parseLoop(bytes, s, m, lastMsgWasComment, r.pos)
                 ELSE parseLoop(bytes, s,
                                SetField(m, SubSeq(r.line, 1, index - 1),
                                         SubSeq(r.line, index + 2, Len(r.line))),
                                lastMsgWasComment, r.pos)

\* parseMessage, lines 66-118
parseMessage(bytes, pos, s) == parseLoop(bytes, s, EmptyRecord, FALSE, pos)

\* a Parse that ends its loop at the end of the input only
ParseEndsAtEOF(done, m) == done

\* "done || msg.Event == "done"", line 57
ParseEnds(done, m) == done \/ m.Event = DoneEvent

\* Parse, lines 47-60, run to its end on a stream that holds `bytes` and then
\* ends: the records it sends on the channel
RECURSIVE ParseAll(_, _)
ParseAll(bytes, pos) ==
    LET r == parseMessage(bytes, pos, "eof")
    IN  IF r.err \notin {"nil", "EOF"} THEN <<>>
        ELSE IF ParseEnds(r.err = "EOF", r.msg) THEN <<r.msg>>
        ELSE <<r.msg>> \o ParseAll(bytes, r.pos)

\* the bytes of the wire
WireBytes == [k \in 1..Len(wire) |-> wire[k].b]

\* Parse, lines 47-53: the goroutine calls parseMessage; a read error other
\* than io.EOF makes it return (the deferred close(ch) is ParseClose)
ParseStep ==
    /\ ppc = "parse"
    /\ LET r == parseMessage(WireBytes, rpos, src)
       IN  /\ r.err # "block"
           /\ rpos' = r.pos
           /\ IF r.err \in {"nil", "EOF"}
              THEN /\ pmsg' = r.msg
                   /\ pdone' = (r.err = "EOF")
                   /\ ppc' = "send"
              ELSE /\ ppc' = "closing"
                   /\ UNCHANGED <<pmsg, pdone>>
    /\ UNCHANGED <<src, script, sent, chClosed, rpc, ctxDone, rres, delivered, rhist>>
    /\ UNCHANGED <<pusherVars, e2eVars, hrVars, poolVars>>

\* Parse, line 46: the deferred close(ch)
ParseClose ==
    /\ ppc = "closing"
    /\ ppc' = "exit"
    /\ chClosed' = TRUE
    /\ UNCHANGED <<src, script, sent, rpos, pmsg, pdone, rpc, ctxDone, rres, delivered, rhist>>
    /\ UNCHANGED <<pusherVars, e2eVars, hrVars, poolVars>>

(***************************************************************************)
(* receiver (receiver.go, lines 10-39).                                     *)
(***************************************************************************)
NoRecord == <<>>

\* an end of stream that hands out a record with the error
EOFWithRecord == [msg |-> <<[Id |-> <<>>, Event |-> <<>>, Data |-> <<>>]>>, err |-> "EOF"]

\* "return nil, ctx.Err()", "return nil, io.EOF", "return msg, nil"
CancelResult == [msg |-> NoRecord, err |-> "ctx"]
EOFResult == [msg |-> NoRecord, err |-> "EOF"]
MsgResult(m) == [msg |-> <<m>>, err |-> "nil"]

\* a select without the case <-ctx.Done()
CtxNeverReady == FALSE

\* the case <-ctx.Done() of the select is ready
CtxReady == ctxDone

\* the application calls Receive(ctx), with a context that is live or is
\* already cancelled, and reaches the select
CallReceive(done) ==
    /\ rpc = "idle"
    /\ rpc' = "wait"
    /\ ctxDone' = done
    /\ rres' = [msg |-> NoRecord, err |-> "none"]
    /\ rhist' = [rhist EXCEPT !.prev = rres.err, !.pre = done]
    /\ UNCHANGED <<src, script, sent, rpos, ppc, pmsg, pdone, chClosed, delivered>>
    /\ UNCHANGED <<pusherVars, e2eVars, hrVars, poolVars>>

\* the context of the pending Receive is cancelled
CtxCancel ==
    /\ rpc = "wait"
    /\ ~ctxDone
    /\ ctxDone' = TRUE
    /\ UNCHANGED <<src, script, sent, rpos, ppc, pmsg, pdone, chClosed, rpc, rres,
                   delivered, rhist>>
    /\ UNCHANGED <<pusherVars, e2eVars, hrVars, poolVars>>

\* a cancelled Receive that takes the record Parse is sending and drops it
ReceiveCancelledTakes ==
    /\ rpc = "wait"
    /\ CtxReady
    /\ rpc' = "idle"
    /\ rres' = CancelResult
    /\ ppc' = IF ppc # "send" THEN ppc
              ELSE IF ParseEnds(pdone, pmsg) THEN "closing" ELSE "parse"
    /\ UNCHANGED <<src, script, sent, rpos, pmsg, pdone, chClosed, ctxDone,
                   delivered, rhist>>
    /\ UNCHANGED <<pusherVars, e2eVars, hrVars, poolVars>>

\* Receive, lines 20-21: case <-ctx.Done()
ReceiveCancelled ==
    /\ rpc = "wait"
    /\ CtxReady
    /\ rpc' = "idle"
    /\ rres' = CancelResult
    /\ UNCHANGED <<src, script, sent, rpos, ppc, pmsg, pdone, chClosed, ctxDone,
                   delivered, rhist>>
    /\ UNCHANGED <<pusherVars, e2eVars, hrVars, poolVars>>

\* Receive, lines 22-26, with Parse, lines 55-59: "ch <- msg" meets
\* "msg, ok := <-r.ch" (the channel has no buffer); Receive returns the record,
\* Parse goes on to its next frame or returns
ReceiveMsg ==
    /\ rpc = "wait"
    /\ ppc = "send"
    /\ rpc' = "idle"
    /\ rres' = MsgResult(pmsg)
    /\ delivered' = Append(delivered, pmsg)
    /\ ppc' = IF ParseEnds(pdone, pmsg) THEN "closing" ELSE "parse"
    /\ UNCHANGED <<src, script, sent, rpos, pmsg, pdone, chClosed, ctxDone, rhist>>
    /\ UNCHANGED <<pusherVars, e2eVars, hrVars, poolVars>>

\* a Receive that finds the channel closed and starts the Parse goroutine again
ReceiveEOFRestarts ==
    /\ rpc = "wait"
    /\ chClosed
    /\ rpc' = "idle"
    /\ rres' = EOFResult
    /\ rhist' = [rhist EXCEPT !.eof = TRUE]
    /\ chClosed' = FALSE
    /\ ppc' = "parse"
    /\ UNCHANGED <<src, script, sent, rpos, pmsg, pdone, ctxDone, delivered>>
    /\ UNCHANGED <<pusherVars, e2eVars, hrVars, poolVars>>

\* Receive, lines 22-25: the channel is closed
ReceiveEOF ==
    /\ rpc = "wait"
    /\ chClosed
    /\ rpc' = "idle"
    /\ rres' = EOFResult
    /\ UNCHANGED <<src, script, sent, rpos, ppc, pmsg, pdone, chClosed, ctxDone,
                   delivered>>
    /\ rhist' = [rhist EXCEPT !.eof = TRUE]
    /\ UNCHANGED <<pusherVars, e2eVars, hrVars, poolVars>>

\* receiver.Close, lines 30-32: rc.Close()
ReceiverClose ==
    /\ src # "closed"
    /\ src' = "closed"
    /\ UNCHANGED <<script, sent, rpos, ppc, pmsg, pdone, chClosed, rpc, ctxDone, rres,
                   delivered, rhist>>
    /\ UNCHANGED <<pusherVars, e2eVars, hrVars, poolVars>>

(***************************************************************************)
(* The Pusher alone: NewPusher(w, timeout) on a plain io.Writer, called by   *)
(* NumCallers goroutines.                                                    *)
(***************************************************************************)
\* NewPusher, lines 72-79: &rawPusher{w: w, timeout: timeout}
InitPusher ==
    /\ closed = FALSE
    /\ mtx = 0
    /\ clearTimeout = 0
    /\ pc = [t \in Threads |-> IF IsCaller(t) THEN "idle" ELSE "none"]
    /\ msg = [t \in Threads |-> NewPingEvent]
    /\ inv = [t \in Threads |-> 0]
    /\ ret = [op |-> "none", err |-> "none"]
    /\ expired = {}
    /\ cancelled = {}
    /\ panicked = FALSE
    /\ wire = <<>>
    /\ invLog = <<>>
    /\ wfails = 0
    /\ started = 0

\* no Receive call has been made
NoCalls == [prev |-> "none", eof |-> FALSE, pre |-> FALSE]

\* no Receiver reads the writer
NoReceiver ==
    /\ src = "open"
    /\ script = <<>>
    /\ sent = 0
    /\ rpos = 0
    /\ ppc = "exit"
    /\ pmsg = EmptyRecord
    /\ pdone = FALSE
    /\ chClosed = FALSE
    /\ rpc = "idle"
    /\ ctxDone = FALSE
    /\ rres = [msg |-> NoRecord, err |-> "none"]
    /\ delivered = <<>>
    /\ rhist = NoCalls

NoHandler == e2eN = 0 /\ e2eI = 0 /\ flushed = [n |-> 0, by |-> {}]

\* nothing uses the buffer pool
NoBufferPool ==
    /\ pool = <<>>
    /\ pm = <<>>
    /\ allocs = 0

\* the HTTP Receiver has no concurrent callers
NoConcurrentCallers ==
    /\ hlock = 0
    /\ hcpc = <<>>
    /\ hcres = <<>>

\* no HTTP Receiver
NoHttpReceiver ==
    /\ hmax = 0
    /\ urlValid = TRUE
    /\ plan = <<>>
    /\ bodyLen = 0
    /\ requests = 0
    /\ hreq0 = 0
    /\ attempts = 0
    /\ hconn = 0
    /\ hpos = 0
    /\ hpc = "exit"
    /\ hres = [msg |-> <<>>, err |-> "none"]
    /\ hcalls = 0
    /\ NoConcurrentCallers

Init ==
    /\ timeout \in {0, 1}
    /\ InitPusher
    /\ NoReceiver
    /\ NoHandler
    /\ NoHttpReceiver
    /\ NoBufferPool

Next ==
    \/ \E c \in Callers : AppPush(c, AppMessage(started + 1))
    \/ \E c \in Callers : AppPushClosed(c)
    \/ \E c \in Callers : Close(c)
    \/ \E t \in Threads : CopyOk(t)
    \/ \E t \in Threads : CopyFail(t)
    \/ \E i \in Invs : TimerExpire(i)
    \/ \E i \in Invs : TimerFire(i)
    \/ \E i \in Invs : TimerStop(i)
    \/ \E i \in Invs : Ping(i)
    \/ \E i \in Invs : PingPush(i)
    \/ \E i \in Invs : PingPushClosed(i)

Spec == Init /\ [][Next]_vars

(***************************************************************************)
(* A Receiver on a stream a peer writes: NewReceiver(rc), lines 34-39.       *)
(***************************************************************************)
\* segments of a script
MaxSegments == 2

Line(field, value) == field \o <<":", " ">> \o value \o <<NL>>
BlankLine == <<NL>>
CommentLine == <<":", " ", "k", NL>>

\* what stands between two frames: nothing, a ping frame as the Pusher writes
\* it (a comment line and a blank line), a comment line with no blank line
\* after it, an empty frame
GapChoices == {<<>>, PingFrame, CommentLine, BlankLine}
CommentGaps == {PingFrame, CommentLine}

FrameChoices ==
    { Line(<<"i", "d">>, <<"1">>) \o BlankLine,
      Line(<<"i", "d">>, <<"2">>) \o Line(<<"d", "a", "t", "a">>, <<"a">>) \o BlankLine,
      Line(<<"e", "v", "e", "n", "t">>, DoneEvent) \o BlankLine }

Segments == [gap : GapChoices, frame : FrameChoices]

RECURSIVE SeqsUpTo(_, _)
SeqsUpTo(S, n) ==
    IF n = 0 THEN {<<>>}
    ELSE LET shorter == SeqsUpTo(S, n - 1)
         IN  shorter \cup {Append(q, x) : q \in shorter, x \in S}

Scripts == SeqsUpTo(Segments, MaxSegments)

\* the bytes of a script, and of the script without its comment lines (and the
\* blank line that ends a comment-only frame)
RECURSIVE ScriptBytes(_)
ScriptBytes(sc) ==
    IF sc = <<>> THEN <<>>
    ELSE sc[1].gap \o sc[1].frame \o ScriptBytes(Tail(sc))

RECURSIVE PlainBytes(_)
PlainBytes(sc) ==
    IF sc = <<>> THEN <<>>
    ELSE (IF sc[1].gap \in CommentGaps THEN <<>> ELSE sc[1].gap)
         \o sc[1].frame \o PlainBytes(Tail(sc))

\* the peer writes the next line of the script
SrvWrite ==
    /\ src = "open"
    /\ sent < Len(ScriptBytes(script))
    /\ LET all == ScriptBytes(script)
           j == NextNL(all, sent + 1)
       IN  /\ wire' = wire \o Tagged(SubSeq(all, sent + 1, j), 0)
           /\ sent' = j
    /\ UNCHANGED <<src, script, rpos, ppc, pmsg, pdone, chClosed, rpc, ctxDone, rres,
                   delivered, rhist>>
    /\ UNCHANGED <<timeout, closed, mtx, clearTimeout, pc, msg, inv, ret, expired,
                   cancelled, panicked, invLog, wfails, started, e2eVars, hrVars, poolVars>>

\* the peer ends the stream: reads past the bytes written return io.EOF
SrvEnd ==
    /\ src = "open"
    /\ src' = "eof"
    /\ UNCHANGED <<script, sent, rpos, ppc, pmsg, pdone, chClosed, rpc, ctxDone, rres,
                   delivered, rhist>>
    /\ UNCHANGED <<pusherVars, e2eVars, hrVars, poolVars>>

InitReceiver ==
    /\ src = "open"
    /\ sent = 0
    /\ rpos = 0
    /\ ppc = "parse"
    /\ pmsg = EmptyRecord
    /\ pdone = FALSE
    /\ chClosed = FALSE
    /\ rpc = "idle"
    /\ ctxDone = FALSE
    /\ rres = [msg |-> NoRecord, err |-> "none"]
    /\ delivered = <<>>
    /\ rhist = NoCalls

RecvInit ==
    /\ script \in Scripts
    /\ InitReceiver
    /\ timeout = 0
    /\ InitPusher
    /\ NoHandler
    /\ NoHttpReceiver
    /\ NoBufferPool

RecvNext ==
    \/ SrvWrite
    \/ SrvEnd
    \/ ParseStep
    \/ ParseClose
    \/ \E done \in BOOLEAN : CallReceive(done)
    \/ CtxCancel
    \/ ReceiveCancelled
    \/ ReceiveMsg
    \/ ReceiveEOF
    \/ ReceiverClose

RecvSpec == RecvInit /\ [][RecvNext]_vars

(***************************************************************************)
(* Properties of Parse and Receive, under RecvSpec.                         *)
(***************************************************************************)
\* the peer wrote the whole script and ended the stream, nobody closed the
\* reader, and the Parse goroutine has returned
StreamDecoded ==
    /\ src = "eof"
    /\ sent = Len(ScriptBytes(script))
    /\ ppc = "exit"

\* C4: every record Parse forwards (and Receive returns) has at least one of
\* id, event, data set: ping frames, comment-only frames, empty frames and the
\* end of the input never make an all-absent record reach the application.
C4_NoAllAbsentRecord ==
    \A k \in 1..Len(delivered) : ~IsAllAbsent(delivered[k])

\* C5: comment lines inserted between the frames, with or without a blank
\* line after them, do not change the records Parse produces: they are the
\* records decoded from the stream without the comment lines.
C5_CommentTolerance ==
    StreamDecoded => delivered = ParseAll(PlainBytes(script), 0)

\* the frame "event: done\n\n"
DoneFrame == Line(<<"e", "v", "e", "n", "t">>, DoneEvent) \o BlankLine

\* C6: Parse forwards a record whose event is "done" once and then ends the
\* sequence: the done record is the last record any Receive returns, the Parse
\* goroutine is at its deferred close(ch) or has returned, and it reads no
\* frame that follows on the wire.
C6_DoneEndsSequence ==
    \A k \in 1..Len(delivered) :
        delivered[k].Event = DoneEvent =>
            /\ k = Len(delivered)
            /\ ppc \in {"closing", "exit"}
            /\ rres.err \in {"nil", "EOF", "ctx", "none"}
            /\ rres.err = "nil" => rres.msg = <<delivered[k]>>

\* a done frame with another frame after it was written in full, the done
\* record was returned, and a later Receive reported the end of the stream
C6_DoneThenEOF ==
    /\ Len(script) = 2
    /\ script[1].frame = DoneFrame
    /\ sent = Len(ScriptBytes(script))
    /\ Len(delivered) > 0
    /\ delivered[Len(delivered)].Event = DoneEvent
    /\ chClosed
    /\ rres.err = "EOF"

\* C7: when the context of a Receive is cancelled and Receive returns the
\* cancellation error, the byte source of the receiver has been closed (so
\* that the Parse goroutine is unblocked and returns).
C7_CancelClosesSource ==
    (rpc = "idle" /\ rres.err = "ctx") => src = "closed"

\* the Parse goroutine is blocked in a Read: the stream has no further data
NoFurtherData ==
    /\ ppc = "parse"
    /\ parseMessage(WireBytes, rpos, src).err = "block"

\* Receive is scheduled whenever the cancellation case of its select is ready;
\* nothing is assumed of the peer or of the Parse goroutine
FairRecvSpec == RecvSpec /\ WF_vars(ReceiveCancelled)

\* C8: a Receive blocked on a stream with no further data returns the
\* cancellation error once its context is cancelled, with no step of the peer
\* or of the Parse goroutine (unless data arrives after all).
C8_CancelUnblocksReceive ==
    (rpc = "wait" /\ ctxDone /\ NoFurtherData)
        ~> ((rpc = "idle" /\ rres.msg = <<>> /\ rres.err = "ctx") \/ ~NoFurtherData)

\* Receive returned the cancellation error while the Parse goroutine was still
\* blocked in its Read and no record had ever been delivered
C8_CancelledWhileBlocked ==
    /\ rpc = "idle"
    /\ rres.err = "ctx"
    /\ rres.msg = <<>>
    /\ NoFurtherData
    /\ delivered = <<>>

\* C9: every Receive ends in one of three outcomes: the next record and no
\* error; no record and io.EOF, the channel of Parse being closed; no record
\* and the error of the cancelled context. It never returns a record with an
\* error.
C9_ReceiveOutcomes ==
    /\ rpc = "wait" => (rres.err = "none" /\ rres.msg = <<>>)
    /\ \/ rres.err = "none" /\ rres.msg = <<>> /\ (rpc = "wait" \/ delivered = <<>>)
       \/ /\ rres.err = "nil"
          /\ Len(delivered) > 0
          /\ rres.msg = <<delivered[Len(delivered)]>>
       \/ rres.err = "EOF" /\ rres.msg = <<>> /\ chClosed
       \/ rres.err = "ctx" /\ rres.msg = <<>> /\ ctxDone

\* records were returned, then the end of the stream was reported
C9_RecordsThenEOF ==
    /\ rpc = "idle"
    /\ Len(delivered) = 2
    /\ rres.err = "EOF"
    /\ rres.msg = <<>>

(***************************************************************************)
(* Properties of the Pusher, under Spec.                                    *)
(***************************************************************************)
\* the bytes invocation i wrote, in the order the writer received them
InvBytes(i) ==
    LET mine == SelectSeq(wire, LAMBDA e : e.inv = i)
    IN  [k \in 1..Len(mine) |-> mine[k].b]

IsPrefix(a, b) == Len(a) <= Len(b) /\ a = SubSeq(b, 1, Len(a))

\* C1: whatever the interleaving of Push calls of the application goroutines
\* and of the timer goroutines, the bytes of one invocation are contiguous on
\* the wire, in the order the invocations took the lock, and (the writer not
\* having failed) the wire is the concatenation of the complete frames of the
\* invocations that returned, followed by a prefix of the frame of the one in
\* progress.
C1_FramesContiguous ==
    /\ \A j, k \in 1..Len(wire) : j < k => wire[j].inv <= wire[k].inv
    /\ \A e \in 1..Len(wire) : wire[e].inv \in 1..Len(invLog)
    /\ wfails = 0 =>
         \A i \in 1..Len(invLog) :
            IF \E t \in Threads : inv[t] = i
            THEN IsPrefix(InvBytes(i), invLog[i].frame)
            ELSE InvBytes(i) = invLog[i].frame

\* two application goroutines and a timer goroutine have each pushed one
\* frame, every frame is on the wire in full
C1_ThreeWriters ==
    /\ Len(invLog) = 3
    /\ wfails = 0
    /\ \A t \in Threads : inv[t] = 0
    /\ \E i \in 1..3 : invLog[i].th \in TimerThreads
    /\ \E i, j \in 1..3 : i # j /\ IsCaller(invLog[i].th) /\ IsCaller(invLog[j].th)
                          /\ invLog[i].th # invLog[j].th
    /\ Len(wire) = Len(invLog[1].frame) + Len(invLog[2].frame) + Len(invLog[3].frame)

\* C2: once Close has set closed, no byte is written to the underlying writer
\* again; a ping whose timer fired before Close finds the Pusher closed and
\* writes nothing.
C2_NoWriteAfterClose == [][closed => wire' = wire]_vars

\* the Pusher was closed after the ping of a fired timer had looked at closed
\* and before its Push
C2_PingRacesClose ==
    /\ closed
    /\ \E i \in Invs : pc[TimerOf(i)] = "push"

\* the goroutines of setTimeout, ping and io.Copy are scheduled; nothing is
\* assumed of the application goroutines
FairSpec ==
    /\ Spec
    /\ \A i \in Invs :
        /\ WF_vars(TimerExpire(i))
        /\ WF_vars(TimerFire(i) \/ TimerStop(i))
        /\ WF_vars(Ping(i))
        /\ WF_vars(PingPush(i) \/ PingPushClosed(i))
    /\ \A t \in Threads : WF_vars(CopyOk(t))

\* a ping frame is on the wire
PingWritten ==
    \E i \in 1..Len(invLog) :
        invLog[i].th \in TimerThreads /\ InvBytes(i) = PingFrame

\* C10: a Pusher with a positive ping timeout that stays open and gets no Push
\* of the application, Push never having been called on it, writes a ping
\* frame.
C10_IdlePusherPings ==
    (timeout > 0 /\ started = 0)
        ~> (PingWritten \/ closed \/ \E i \in 1..Len(invLog) : IsCaller(invLog[i].th))

(***************************************************************************)
(* End to end (sse_test.go, TestPusherReceiver): a handler pushes e2eN       *)
(* records on one Pusher, one after the other, and returns; a client reads  *)
(* the response body with NewReceiver and calls Receive until it fails.     *)
(* Goroutine 1 is the handler. The response body is the wire.               *)
(***************************************************************************)
\* records the handler pushes at most
E2EMaxN == 2

Handler == 1

\* the fields the handler gives its one message for record n
HandlerMessage(n) == NewMessage(<<Digits[n]>>, <<"e">>, <<"d", Digits[n]>>)

\* the record the client is to get for record n
HandlerRecord(n) ==
    [Id |-> Ptr(<<Digits[n]>>), Event |-> <<"e">>, Data |-> Ptr(<<"d", Digits[n]>>)]

\* the loop of the handler, lines 66-75: set the fields, pusher.Push(&msg)
HandlerPush ==
    /\ pc[Handler] = "idle"
    /\ ~closed
    /\ e2eI < e2eN
    /\ started < MaxInvocations
    /\ started' = started + 1
    /\ e2eI' = e2eI + 1
    /\ PushEnter(Handler, Assign(msg[Handler], HandlerMessage(e2eI + 1)))
    /\ UNCHANGED <<recvVars, e2eN, flushed, hrVars, poolVars>>

\* the handler leaves its loop: the deferred pusher.Close(), line 62
HandlerClose ==
    /\ e2eI = e2eN
    /\ ~closed
    /\ Close(Handler)

\* the handler has returned: the server ends the response body
HandlerEnd ==
    /\ pc[Handler] = "idle"
    /\ closed
    /\ SrvEnd

\* the loop of the client, lines 101-108: Receive(context.Background()) until
\* it returns an error
ClientReceive ==
    /\ rres.err \in {"none", "nil"}
    /\ CallReceive(FALSE)

E2EInit ==
    /\ timeout = 1
    /\ InitPusher
    /\ script = <<>>
    /\ InitReceiver
    /\ e2eN \in 0..E2EMaxN
    /\ e2eI = 0
    /\ flushed = [n |-> 0, by |-> {}]
    /\ NoHttpReceiver
    /\ NoBufferPool

E2ENext ==
    \/ HandlerPush
    \/ HandlerClose
    \/ HandlerEnd
    \/ \E t \in Threads : CopyOk(t)
    \/ \E i \in Invs : TimerExpire(i)
    \/ \E i \in Invs : TimerFire(i)
    \/ \E i \in Invs : TimerStop(i)
    \/ \E i \in Invs : Ping(i)
    \/ \E i \in Invs : PingPush(i)
    \/ \E i \in Invs : PingPushClosed(i)
    \/ ParseStep
    \/ ParseClose
    \/ ClientReceive
    \/ ReceiveMsg
    \/ ReceiveEOF

E2ESpec == E2EInit /\ [][E2ENext]_vars

\* the records of a sequence that carry an id
WithId(recs) == SelectSeq(recs, LAMBDA m : m.Id # Nil)

\* C3: the handler pushing records 1..N one after the other on one Pusher,
\* the records with an id that the successive Receive calls of one Receiver
\* return are records 1, 2, ... in that order, each as it was pushed (none
\* reordered, merged or cut), never more than were pushed; when Receive
\* reports the end of the stream all N have been returned.
C3_EndToEndOrder ==
    LET got == WithId(delivered)
    IN  /\ Len(got) <= e2eI
        /\ \A k \in 1..Len(got) : got[k] = HandlerRecord(k)
        /\ rres.err = "EOF" => Len(got) = e2eN

\* the handler pushed two records with a ping between them, the client got
\* both and then the end of the stream
C3_TwoRecordsAndPing ==
    /\ e2eN = 2
    /\ Len(invLog) = 3
    /\ invLog[2].th \in TimerThreads
    /\ Len(WithId(delivered)) = 2
    /\ rres.err = "EOF"

(***************************************************************************)
(* Error handling of the Pusher, under Spec.                                *)
(***************************************************************************)
\* the timers whose goroutine is in its select
ArmedTimers == {i \in Invs : pc[TimerOf(i)] = "select"}

\* C11: on a closed Pusher a Push returns io.ErrClosedPipe, writes no byte to
\* the underlying writer and arms no keepalive timer: while closed holds no
\* step changes the wire, starts an invocation, sets p.clearTimeout or starts
\* a timer goroutine, and the only return of a Push is io.ErrClosedPipe.
C11_PushOnClosed ==
    [][closed =>
        /\ wire' = wire
        /\ invLog' = invLog
        /\ clearTimeout' = clearTimeout
        /\ ArmedTimers' \subseteq ArmedTimers
        /\ ret'.op = "Push" => ret'.err = "ErrClosedPipe"]_vars

\* a Pusher that has written a frame and armed a timer was closed, and a Push
\* of the application then returned io.ErrClosedPipe
C11_PushedAfterClose ==
    /\ closed
    /\ Len(wire) > 0
    /\ Len(invLog) > 0
    /\ ret = [op |-> "Push", err |-> "ErrClosedPipe"]

\* C12: Close is idempotent. The first Close sets closed, calls the cancel
\* function of the pending timer (if any), clears p.clearTimeout and returns
\* nil; every later Close returns nil and changes neither closed, nor
\* p.clearTimeout, nor any timer; no cancel function is ever called twice
\* (closing the closed channel would panic).
C12_CloseIdempotent ==
    [][/\ ~panicked'
       /\ (~closed /\ closed') =>
            /\ ret' = [op |-> "Close", err |-> "nil"]
            /\ clearTimeout' = 0
            /\ cancelled' = cancelled \cup (IF clearTimeout = 0 THEN {} ELSE {clearTimeout})
       /\ closed =>
            /\ closed'
            /\ clearTimeout' = clearTimeout
            /\ cancelled' = cancelled
            /\ wire' = wire
            /\ ret'.op = "Close" => ret'.err = "nil"]_vars

\* a Pusher with a pending keepalive timer was closed: the timer is cancelled,
\* p.clearTimeout is nil and the last call to return was a Close
C12_ClosedWithTimer ==
    /\ closed
    /\ clearTimeout = 0
    /\ cancelled # {}
    /\ Len(invLog) \in cancelled
    /\ ret = [op |-> "Close", err |-> "nil"]

\* C13: when the underlying writer fails during a Push, that Push returns the
\* writer's error to its caller, releases the lock and leaves the Pusher open;
\* closed is set by Close alone, so that a later Push writes again and
\* returns io.ErrClosedPipe only after a Close.
C13_WriteFailureKeepsOpen ==
    [][/\ wfails' # wfails =>
            /\ closed' = closed
            /\ mtx' = 0
            /\ \A c \in Callers :
                 pc[c] = "copy" => (pc'[c] = "idle" /\ ret' = [op |-> "Push", err |-> "werr"])
       /\ (~closed /\ closed') => ret'.op = "Close"
       /\ (ret' # ret /\ ret'.err = "ErrClosedPipe") => closed]_vars

\* the writer failed in one Push, cutting its frame short; the Pusher is
\* still open and a later Push wrote bytes and returned nil
C13_PushAfterFailure ==
    /\ wfails = 1
    /\ ~closed
    /\ \A t \in Threads : inv[t] = 0
    /\ Len(invLog) >= 2
    /\ \E i \in 1..(Len(invLog) - 1) : InvBytes(i) # invLog[i].frame
    /\ Len(InvBytes(Len(invLog))) > 0
    /\ ret = [op |-> "Push", err |-> "nil"]

\* C14: with a ping timeout of 0 the Pusher never arms a keepalive timer and
\* never writes a ping frame of its own, whatever Push and Close calls are
\* made: no timer goroutine exists, p.clearTimeout stays nil, and every
\* invocation and every byte on the wire is of a Push of the application.
C14_NoTimerWithoutTimeout ==
    timeout = 0 =>
        /\ clearTimeout = 0
        /\ expired = {}
        /\ cancelled = {}
        /\ \A i \in Invs : pc[TimerOf(i)] = "none"
        /\ \A i \in 1..Len(invLog) :
             IsCaller(invLog[i].th) /\ invLog[i].frame # PingFrame
        /\ \A e \in 1..Len(wire) : IsCaller(invLog[wire[e].inv].th)

\* with timeout 0, three pushes of the application were written in full and
\* the Pusher was closed
C14_PushesWithoutTimer ==
    /\ timeout = 0
    /\ Len(invLog) = 3
    /\ wfails = 0
    /\ \A t \in Threads : inv[t] = 0
    /\ Len(wire) = Len(invLog[1].frame) + Len(invLog[2].frame) + Len(invLog[3].frame)
    /\ closed

(***************************************************************************)
(* The Pusher of NewHttpPusher (unnamed/part_003, lines 85-109): its Push   *)
(* is the closure "raw.Push(msg), then out.Flush()", its Close is raw.Close. *)
(* The timer goroutines call raw.ping, hence raw.Push. The writer does not  *)
(* fail here.                                                               *)
(***************************************************************************)
\* goroutine c is in the closure between the return of raw.Push and out.Flush()
Pending(c) ==
    \E i \in 1..Len(invLog) : invLog[i].th = c /\ inv[c] # i /\ i \notin flushed.by

\* the closure, lines 100-102: raw.Push(msg)
HttpPush(c) ==
    /\ ~Pending(c)
    /\ AppPush(c, AppMessage(started + 1))

HttpPushClosed(c) ==
    /\ ~Pending(c)
    /\ AppPushClosed(c)

\* the closure, line 103: out.Flush() after raw.Push returned nil; what the
\* response holds goes to the client
HttpFlush(c) ==
    /\ pc[c] = "idle"
    /\ Pending(c)
    /\ flushed' = [n |-> Len(wire),
                   by |-> flushed.by \cup {i \in 1..Len(invLog) : invLog[i].th = c}]
    /\ UNCHANGED <<pusherVars, recvVars, e2eN, e2eI, hrVars, poolVars>>

\* line 106: raw.Close
HttpClose(c) ==
    /\ ~Pending(c)
    /\ Close(c)

HttpInit ==
    /\ timeout = 1
    /\ InitPusher
    /\ NoReceiver
    /\ NoHandler
    /\ NoHttpReceiver
    /\ NoBufferPool

HttpNext ==
    \/ \E c \in Callers : HttpPush(c)
    \/ \E c \in Callers : HttpPushClosed(c)
    \/ \E c \in Callers : HttpFlush(c)
    \/ \E c \in Callers : HttpClose(c)
    \/ \E t \in Threads : CopyOk(t)
    \/ \E i \in Invs : TimerExpire(i)
    \/ \E i \in Invs : TimerFire(i)
    \/ \E i \in Invs : TimerStop(i)
    \/ \E i \in Invs : Ping(i)
    \/ \E i \in Invs : PingPush(i)
    \/ \E i \in Invs : PingPushClosed(i)

HttpSpec == HttpInit /\ [][HttpNext]_vars

\* C15: for the Pusher of NewHttpPusher write and flush are one atomic unit:
\* every frame, the ping frames included, is flushed before the exclusive
\* region of its push is left, so whenever the lock is free all the bytes
\* written have been flushed.
C15_FlushWithinExclusion ==
    mtx = 0 => flushed.n = Len(wire)

(***************************************************************************)
(* The codec alone (msg_test.go, TestReadWrite): io.Copy(&buffer, msg)      *)
(* reads the message into a buffer with Message.Read, io.Copy(&recv,        *)
(* &buffer) hands the buffer to recv.Write in one call. msg[Sender] is msg, *)
(* msg[Recv] is recv, the wire is the buffer, pc[Sender] is the test.       *)
(***************************************************************************)
Sender == 1
Recv == 2

\* the size of the benchmark's read buffer
BenchBufSize == 512

\* a value that takes Message.Read to its pooled-buffer path
LongData == [k \in 1..(SmallMax - EstimateOverhead + 1) |-> "x"]

CodecIds == {<<>>, <<"1">>}
CodecEvents == {<<>>, <<"e">>, <<"p", "i", "n", "g">>}
CodecData == {<<>>, <<"d">>, <<" ", "x">>, <<"a", ":", " ", "b">>, LongData}
CodecRecords == {NewMessage(i, e, d) : i \in CodecIds, e \in CodecEvents, d \in CodecData}

\* the sizes of the slices Read is called with
ReadSizes == {CopyBufSize, BenchBufSize}

\* one Read of msg into a slice of n bytes, appended to the buffer
CodecRead(n) ==
    /\ pc[Sender] = "copy"
    /\ LET r == MessageRead(msg[Sender], n)
       IN  /\ msg' = [msg EXCEPT ![Sender] = r.m]
           /\ wire' = wire \o Tagged(r.out, 0)
           /\ pc' = [pc EXCEPT ![Sender] = IF r.err = "EOF" THEN "write" ELSE "copy"]
    /\ UNCHANGED <<timeout, closed, mtx, clearTimeout, inv, ret, expired, cancelled,
                   panicked, invLog, wfails, started>>
    /\ UNCHANGED <<recvVars, e2eVars, hrVars, poolVars>>

\* recv.Write(buffer.Bytes())
CodecWrite ==
    /\ pc[Sender] = "write"
    /\ msg' = [msg EXCEPT ![Recv] = MessageWrite(msg[Recv], WireBytes)]
    /\ pc' = [pc EXCEPT ![Sender] = "idle"]
    /\ UNCHANGED <<timeout, closed, mtx, clearTimeout, inv, ret, expired, cancelled,
                   panicked, wire, invLog, wfails, started>>
    /\ UNCHANGED <<recvVars, e2eVars, hrVars, poolVars>>

CodecInit ==
    /\ timeout = 0
    /\ closed = FALSE
    /\ mtx = 0
    /\ clearTimeout = 0
    /\ \E f \in CodecRecords :
         msg = [t \in Threads |-> IF t = Sender THEN f ELSE NewPingEvent]
    /\ pc = [t \in Threads |->
               IF t = Sender THEN "copy" ELSE IF IsCaller(t) THEN "idle" ELSE "none"]
    /\ inv = [t \in Threads |-> 0]
    /\ ret = [op |-> "none", err |-> "none"]
    /\ expired = {}
    /\ cancelled = {}
    /\ panicked = FALSE
    /\ wire = <<>>
    /\ invLog = <<>>
    /\ wfails = 0
    /\ started = 0
    /\ NoReceiver
    /\ NoHandler
    /\ NoHttpReceiver
    /\ NoBufferPool

CodecNext ==
    \/ \E n \in ReadSizes : CodecRead(n)
    \/ CodecWrite

CodecSpec == CodecInit /\ [][CodecNext]_vars

HasField(m) == m.Id # <<>> \/ m.Event # <<>> \/ m.Data # <<>>

\* C16: round trip: for every record with at least one of id, event and data
\* set, Message.Write applied to the bytes Message.Read produced yields a
\* record with the same id, event and data.
C16_RoundTrip ==
    (pc[Sender] = "idle" /\ HasField(msg[Sender])) =>
        /\ msg[Recv].Id = msg[Sender].Id
        /\ msg[Recv].Event = msg[Sender].Event
        /\ msg[Recv].Data = msg[Sender].Data

\* C17: Message.Read encodes a record as the line "id: <id>" iff id is set,
\* then the line "event: <event>" iff event is not empty, then the line
\* "data: <data>" iff data is set, each ended by one newline, then one blank
\* line; a record with none of the three set encodes to ": ping" and one
\* blank line. Read hands the encoding out in order, whatever the sizes of
\* the slices it is called with.
C17_Encoding ==
    LET m == msg[Sender]
        idLine == IF m.Id = <<>> THEN <<>> ELSE <<"i", "d", ":", " ">> \o m.Id \o <<"\n">>
        eventLine == IF m.Event = <<>> THEN <<>>
                     ELSE <<"e", "v", "e", "n", "t", ":", " ">> \o m.Event \o <<"\n">>
        dataLine == IF m.Data = <<>> THEN <<>>
                    ELSE <<"d", "a", "t", "a", ":", " ">> \o m.Data \o <<"\n">>
        encoding == IF m.Id = <<>> /\ m.Event = <<>> /\ m.Data = <<>>
                    THEN <<":", " ", "p", "i", "n", "g", "\n", "\n">>
                    ELSE idLine \o eventLine \o dataLine \o <<"\n">>
    IN  /\ pc[Sender] = "copy" => IsPrefix(WireBytes, encoding)
        /\ pc[Sender] \in {"write", "idle"} =>
             (WireBytes = encoding /\ m.readerRemaining = 0)

\* a record with id, event and long data was read in several slices
C17_LongRecordRead ==
    /\ pc[Sender] = "write"
    /\ msg[Sender].Id # <<>>
    /\ msg[Sender].Event # <<>>
    /\ msg[Sender].Data = LongData
    /\ Len(WireBytes) > SmallMax

(***************************************************************************)
(* The HTTP Receiver (NewHttpReceiver, WithMaxRetries), as its tests use it  *)
(* (receiver.go, lines 286-564): one caller, a server that answers its k-th  *)
(* request with plan[k]. A successful response streams bodyLen records, the  *)
(* j-th of request k being [conn |-> k, idx |-> j], and ends.                *)
(***************************************************************************)
\* the largest WithMaxRetries
MaxRetries == 2
\* requests the server answers
MaxRequests == 4
\* records of a response body
MaxBody == 2
\* Receive calls
MaxReceives == 3

Answers == {"ok", "500", "404"}

\* the plans of n answers
RECURSIVE Plans(_)
Plans(n) ==
    IF n = 0 THEN {<<>>}
    ELSE {Append(q, a) : q \in Plans(n - 1), a \in Answers}

\* a client that retries after every failure status
AnyFailureRetryable(answer) == answer # "ok"

\* a transient (5xx) status
Retryable(answer) == answer = "500"

\* a budget that counts the retries after the first attempt
RetriesAfterFirstLeft(n) == n <= hmax

\* after n failed attempts another one may be made
AttemptsLeft(n) == n < hmax

\* a Receive that reconnects by itself when the stream has ended
StreamEndReconnects ==
    /\ hres' = hres
    /\ hconn' = 0
    /\ hpc' = "connect"

\* the stream of the bound connection has ended: Receive returns the error and
\* forgets the connection
StreamEnd ==
    /\ hres' = [msg |-> <<>>, err |-> "EOF"]
    /\ hconn' = 0
    /\ hpc' = "idle"

\* Receive is called: it reads the bound connection, or has to connect first
HCall ==
    /\ hpc = "idle"
    /\ hcalls < MaxReceives
    /\ hcalls' = hcalls + 1
    /\ hreq0' = requests
    /\ attempts' = 0
    /\ hres' = [msg |-> <<>>, err |-> "none"]
    /\ hpc' = IF hconn = 0 THEN "connect" ELSE "read"
    /\ UNCHANGED <<hmax, urlValid, plan, bodyLen, requests, hconn, hpos>>
    /\ UNCHANGED <<pusherVars, recvVars, e2eVars, hcVars, poolVars>>

\* an attempt on a URL no request can be made for
HInvalid ==
    /\ hpc = "connect"
    /\ ~urlValid
    /\ attempts' = attempts + 1
    /\ hres' = [msg |-> <<>>, err |-> "invalid url"]
    /\ hpc' = "idle"
    /\ UNCHANGED <<hmax, urlValid, plan, bodyLen, requests, hreq0, hconn, hpos, hcalls>>
    /\ UNCHANGED <<pusherVars, recvVars, e2eVars, hcVars, poolVars>>

\* an attempt: the request and the server's answer
HRequest ==
    /\ hpc = "connect"
    /\ urlValid
    /\ requests < Len(plan)
    /\ requests' = requests + 1
    /\ attempts' = attempts + 1
    /\ LET answer == plan[requests + 1]
       IN  IF answer = "ok"
           THEN /\ hconn' = requests + 1
                /\ hpos' = 0
                /\ hpc' = "read"
                /\ UNCHANGED hres
           ELSE IF Retryable(answer)
           THEN /\ IF AttemptsLeft(attempts + 1)
                   THEN hpc' = "backoff" /\ UNCHANGED hres
                   ELSE /\ hpc' = "idle"
                        /\ hres' = [msg |-> <<>>, err |-> "max retries exceeded"]
                /\ UNCHANGED <<hconn, hpos>>
           ELSE /\ hpc' = "idle"
                /\ hres' = [msg |-> <<>>, err |-> "unexpected status code: 404"]
                /\ UNCHANGED <<hconn, hpos>>
    /\ UNCHANGED <<hmax, urlValid, plan, bodyLen, hreq0, hcalls>>
    /\ UNCHANGED <<pusherVars, recvVars, e2eVars, hcVars, poolVars>>

\* the delay before the next attempt has passed
HBackoff ==
    /\ hpc = "backoff"
    /\ hpc' = "connect"
    /\ UNCHANGED <<hmax, urlValid, plan, bodyLen, requests, hreq0, attempts, hconn, hpos,
                   hres, hcalls>>
    /\ UNCHANGED <<pusherVars, recvVars, e2eVars, hcVars, poolVars>>

\* Receive on the bound connection: the next record, or the end of the stream
HRead ==
    /\ hpc = "read"
    /\ IF hpos < bodyLen
       THEN /\ hres' = [msg |-> <<[conn |-> hconn, idx |-> hpos + 1]>>, err |-> "nil"]
            /\ hpos' = hpos + 1
            /\ hpc' = "idle"
            /\ UNCHANGED hconn
       ELSE /\ StreamEnd
            /\ UNCHANGED hpos
    /\ UNCHANGED <<hmax, urlValid, plan, bodyLen, requests, hreq0, attempts, hcalls>>
    /\ UNCHANGED <<pusherVars, recvVars, e2eVars, hcVars, poolVars>>

HttpRecvInit ==
    /\ hmax \in 1..MaxRetries
    /\ urlValid \in BOOLEAN
    /\ plan \in Plans(MaxRequests)
    /\ bodyLen \in 0..MaxBody
    /\ requests = 0
    /\ hreq0 = 0
    /\ attempts = 0
    /\ hconn = 0
    /\ hpos = 0
    /\ hpc = "idle"
    /\ hres = [msg |-> <<>>, err |-> "none"]
    /\ hcalls = 0
    /\ NoConcurrentCallers
    /\ timeout = 0
    /\ InitPusher
    /\ NoReceiver
    /\ NoHandler
    /\ NoBufferPool

HttpRecvNext ==
    \/ HCall
    \/ HInvalid
    \/ HRequest
    \/ HBackoff
    \/ HRead

HttpRecvSpec == HttpRecvInit /\ [][HttpRecvNext]_vars

\* the answers to the requests of the current (or last) Receive but the last
EarlierAnswers == {plan[j] : j \in (hreq0 + 1)..(requests - 1)}

\* C18: against a server that answers attempts with a 5xx status, Receive
\* attempts until one attempt succeeds or the configured maximum of attempts
\* is made, never more: when attempt k <= max succeeds, Receive returns the
\* first record of that response after exactly k requests; when every attempt
\* fails, it returns "max retries exceeded" after exactly max requests.
C18_BoundedRetry ==
    /\ attempts <= hmax
    /\ urlValid => requests - hreq0 = attempts
    /\ hres.err = "max retries exceeded" =>
         /\ attempts = hmax
         /\ requests - hreq0 = hmax
         /\ \A j \in (hreq0 + 1)..requests : plan[j] = "500"
    /\ (hpc = "idle" /\ hres.err = "nil" /\ attempts > 0) =>
         /\ plan[requests] = "ok"
         /\ EarlierAnswers \subseteq {"500"}
         /\ hres.msg = <<[conn |-> requests, idx |-> 1]>>

\* with a maximum of 2 the first attempt got a 500, the second succeeded and
\* Receive returned the first record
C18_SecondAttemptSucceeds ==
    /\ hmax = 2
    /\ hpc = "idle"
    /\ attempts = 2
    /\ plan[requests - 1] = "500"
    /\ hres = [msg |-> <<[conn |-> requests, idx |-> 1]>>, err |-> "nil"]

\* C19: a permanent failure is never retried: a Receive whose attempt is
\* answered 404, or whose URL is invalid, fails with that attempt, with the
\* error naming the status and not "max retries exceeded", whatever the
\* configured maximum; on a first attempt that is after exactly one attempt.
C19_PermanentNotRetried ==
    /\ hres.err = "unexpected status code: 404" =>
         /\ plan[requests] = "404"
         /\ requests - hreq0 = attempts
         /\ "404" \notin EarlierAnswers
         /\ plan[hreq0 + 1] = "404" => attempts = 1
    /\ hres.err = "invalid url" => (attempts = 1 /\ requests = hreq0)
    /\ hres.err = "max retries exceeded" =>
         \A j \in (hreq0 + 1)..requests : plan[j] # "404"
    /\ (hpc \in {"backoff", "connect"} /\ attempts > 0) => plan[requests] = "500"

\* with a maximum of 2, the first attempt of a Receive was answered 404 and
\* the Receive failed with the status
C19_NotFoundOnce ==
    /\ urlValid
    /\ hmax = 2
    /\ hpc = "idle"
    /\ attempts = 1
    /\ plan[requests] = "404"
    /\ hres.err = "unexpected status code: 404"

\* C20: reconnection is lazy: the Receive that observes the end of the bound
\* stream returns an error and opens no connection; no request is made while
\* no Receive is in progress; the next Receive has no connection, so that it
\* makes a new request, and a record it returns is the first of that request.
C20_LazyReconnect ==
    [][/\ (hpc = "read" /\ hpos >= bodyLen) =>
            (hpc' = "idle" /\ hres'.err = "EOF" /\ hconn' = 0 /\ requests' = requests)
       /\ hpc = "idle" => (requests' = requests /\ hconn' = hconn)
       /\ (hpc = "idle" /\ hpc' # "idle" /\ hres.err = "EOF") => hpc' = "connect"
       /\ (hpc' = "idle" /\ hres'.err = "nil" /\ requests' > hreq0') =>
            hres'.msg = <<[conn |-> requests', idx |-> 1]>>]_vars

\* the first connection ended, the Receive that saw it failed, and the next
\* Receive got the first record of the second connection
C20_Reconnected ==
    /\ hcalls = 3
    /\ requests = 2
    /\ hpc = "idle"
    /\ hreq0 = 1
    /\ hres = [msg |-> <<[conn |-> 2, idx |-> 1]>>, err |-> "nil"]

(***************************************************************************)
(* One HTTP Receiver called by several tasks at once, as in                  *)
(* TestHttpReceiver_ConcurrentReceive (receiver.go, lines 361-427): every    *)
(* task calls Receive once, the server answers every request with a stream   *)
(* of bodyLen records, record j of every response being the same record.     *)
(***************************************************************************)
\* tasks calling Receive
NumReceivers == 3

Receivers == 1..NumReceivers

\* a connection state nothing protects
ConnLockNoExclusion(c) == TRUE

\* the exclusion of the connection state is free for task c
ConnLock(c) == hlock = 0

\* task c calls Receive
ConcCall(c) ==
    /\ hcpc[c] = "idle"
    /\ hcpc' = [hcpc EXCEPT ![c] = "enter"]
    /\ UNCHANGED <<hlock, hcres>>
    /\ UNCHANGED <<hmax, urlValid, plan, bodyLen, requests, hreq0, attempts, hconn, hpos,
                   hpc, hres, hcalls>>
    /\ UNCHANGED <<pusherVars, recvVars, e2eVars, poolVars>>

\* Receive looks for a bound connection: with one it goes on to read, without
\* one it keeps the exclusion and connects
ConcCheck(c) ==
    /\ hcpc[c] = "enter"
    /\ ConnLock(c)
    /\ IF hconn = 0
       THEN hlock' = c /\ hcpc' = [hcpc EXCEPT ![c] = "connect"]
       ELSE hlock' = hlock /\ hcpc' = [hcpc EXCEPT ![c] = "read"]
    /\ UNCHANGED hcres
    /\ UNCHANGED <<hmax, urlValid, plan, bodyLen, requests, hreq0, attempts, hconn, hpos,
                   hpc, hres, hcalls>>
    /\ UNCHANGED <<pusherVars, recvVars, e2eVars, poolVars>>

\* the request of task c succeeds: a fresh decoder is bound to the response
\* body and the exclusion released
ConcRequest(c) ==
    /\ hcpc[c] = "connect"
    /\ requests < Len(plan)
    /\ plan[requests + 1] = "ok"
    /\ requests' = requests + 1
    /\ hconn' = requests + 1
    /\ hpos' = 0
    /\ hlock' = 0
    /\ hcpc' = [hcpc EXCEPT ![c] = "read"]
    /\ UNCHANGED hcres
    /\ UNCHANGED <<hmax, urlValid, plan, bodyLen, hreq0, attempts, hpc, hres, hcalls>>
    /\ UNCHANGED <<pusherVars, recvVars, e2eVars, poolVars>>

\* task c takes the next record of the bound stream, or finds the stream ended
ConcRead(c) ==
    /\ hcpc[c] = "read"
    /\ IF hconn # 0 /\ hpos < bodyLen
       THEN /\ hcres' = [hcres EXCEPT ![c] =
                           [msg |-> <<[conn |-> hconn, idx |-> hpos + 1]>>, err |-> "nil"]]
            /\ hpos' = hpos + 1
            /\ UNCHANGED hconn
       ELSE /\ hcres' = [hcres EXCEPT ![c] = [msg |-> <<>>, err |-> "EOF"]]
            /\ hconn' = 0
            /\ UNCHANGED hpos
    /\ hcpc' = [hcpc EXCEPT ![c] = "done"]
    /\ UNCHANGED hlock
    /\ UNCHANGED <<hmax, urlValid, plan, bodyLen, requests, hreq0, attempts, hpc, hres,
                   hcalls>>
    /\ UNCHANGED <<pusherVars, recvVars, e2eVars, poolVars>>

ConcInit ==
    /\ hmax = 1
    /\ urlValid = TRUE
    /\ plan = [k \in 1..MaxRequests |-> "ok"]
    /\ bodyLen \in 0..NumReceivers
    /\ requests = 0
    /\ hreq0 = 0
    /\ attempts = 0
    /\ hconn = 0
    /\ hpos = 0
    /\ hpc = "exit"
    /\ hres = [msg |-> <<>>, err |-> "none"]
    /\ hcalls = 0
    /\ hlock = 0
    /\ hcpc = [c \in Receivers |-> "idle"]
    /\ hcres = [c \in Receivers |-> [msg |-> <<>>, err |-> "none"]]
    /\ timeout = 0
    /\ InitPusher
    /\ NoReceiver
    /\ NoHandler
    /\ NoBufferPool

ConcNext ==
    \/ \E c \in Receivers : ConcCall(c)
    \/ \E c \in Receivers : ConcCheck(c)
    \/ \E c \in Receivers : ConcRequest(c)
    \/ \E c \in Receivers : ConcRead(c)

ConcSpec == ConcInit /\ [][ConcNext]_vars

\* the tasks whose Receive has returned
ReceiversDone == {c \in Receivers : hcpc[c] = "done"}

\* C21: when as many tasks call Receive at once as the server streams records,
\* one request is made, every call returns a record without error, no record
\* goes to two callers and, once all have returned, every record was returned.
C21_ConcurrentReceive ==
    bodyLen = NumReceivers =>
      /\ requests <= 1
      /\ \A c \in ReceiversDone : hcres[c].err = "nil" /\ Len(hcres[c].msg) = 1
      /\ \A c, d \in ReceiversDone :
           c # d => hcres[c].msg[1].idx # hcres[d].msg[1].idx
      /\ ReceiversDone = Receivers =>
           {hcres[c].msg[1].idx : c \in Receivers} = 1..NumReceivers

\* all tasks have returned; the last task got the first record, the first
\* task the last
C21_AllReceived ==
    /\ bodyLen = NumReceivers
    /\ ReceiversDone = Receivers
    /\ hcres[NumReceivers].msg = <<[conn |-> 1, idx |-> 1]>>
    /\ hcres[1].msg = <<[conn |-> 1, idx |-> NumReceivers]>>

(***************************************************************************)
(* Parse on a stream a peer writes line by line: field lines, repeated       *)
(* fields, lines without ": ", lines with an unknown field name, comment     *)
(* lines and blank lines, in any order, ended by the peer at any point.      *)
(***************************************************************************)
\* lines of a script
MaxLines == 4

FieldNames == {<<"i", "d">>, <<"e", "v", "e", "n", "t">>, <<"d", "a", "t", "a">>}

\* a line with a colon and no space after it, a line with an unknown field name
NoSepLine == <<"i", "d", ":", "9", NL>>
UnknownFieldLine == Line(<<"x">>, <<"9">>)

LineChoices ==
    { Line(<<"i", "d">>, <<"1">>), Line(<<"i", "d">>, <<"2">>),
      Line(<<"d", "a", "t", "a">>, <<"a">>), Line(<<"d", "a", "t", "a">>, <<"b">>),
      Line(<<"e", "v", "e", "n", "t">>, <<"e">>),
      NoSepLine, UnknownFieldLine, CommentLine, BlankLine }

\* a script of lines: one segment, with no gap, for each line
LineScripts ==
    { [k \in 1..Len(q) |-> [gap |-> <<>>, frame |-> q[k]]] :
        q \in SeqsUpTo(LineChoices, MaxLines) }

LineInit ==
    /\ script \in LineScripts
    /\ InitReceiver
    /\ timeout = 0
    /\ InitPusher
    /\ NoHandler
    /\ NoHttpReceiver
    /\ NoBufferPool

LineNext ==
    \/ SrvWrite
    \/ SrvEnd
    \/ ParseStep
    \/ ParseClose
    \/ CallReceive(FALSE)
    \/ ReceiveMsg
    \/ ReceiveEOF

LineSpec == LineInit /\ [][LineNext]_vars

\* the peer has ended the stream and the Parse goroutine has returned
ParseFinished == src = "eof" /\ ppc = "exit"

\* a line (without its newline) that is neither blank nor a comment, and has
\* no ": " or a field name other than id, event, data
IsMalformed(line) ==
    /\ Len(line) > 0
    /\ line[1] # ":"
    /\ LET index == IndexSep(line, 1)
       IN  index = 0 \/ SubSeq(line, 1, index - 1) \notin FieldNames

\* the bytes after position pos without the malformed lines
RECURSIVE DropMalformed(_, _)
DropMalformed(bytes, pos) ==
    LET j == NextNL(bytes, pos + 1)
    IN  IF j = 0 THEN SubSeq(bytes, pos + 1, Len(bytes))
        ELSE (IF IsMalformed(SubSeq(bytes, pos + 1, j - 1))
              THEN <<>>
              ELSE SubSeq(bytes, pos + 1, j))
             \o DropMalformed(bytes, j)

\* C22: a line without ": ", or with a field name other than id, event and
\* data, contributes nothing: the records Parse produces from a stream are the
\* records decoded from the stream without those lines.
C22_MalformedLinesIgnored ==
    ParseFinished => delivered = ParseAll(DropMalformed(WireBytes, 0), 0)

\* a frame with both kinds of malformed line around an id line was decoded to
\* the record with that id
C22_MalformedInFrame ==
    /\ ParseFinished
    /\ WireBytes = NoSepLine \o Line(<<"i", "d">>, <<"1">>) \o UnknownFieldLine
                     \o BlankLine
    /\ delivered[1] = [Id |-> Ptr(<<"1">>), Event |-> <<>>, Data |-> Nil]

(***************************************************************************)
(* One frame of field lines, some of them repeated, decoded by Parse and by  *)
(* Message.Write (recv.Write(buffer.Bytes()), as io.Copy(&recv, &buffer) of  *)
(* TestReadWrite does).                                                      *)
(***************************************************************************)
\* field lines of the frame
MaxFieldLines == 3

FrameValues == {<<"a">>, <<"b">>, <<"p", "i", "n", "g">>}

FrameLineChoices ==
    {Line(f, v) : f \in FieldNames, v \in {<<"a">>, <<"b">>}}
    \cup {Line(<<"e", "v", "e", "n", "t">>, <<"p", "i", "n", "g">>)}

\* the scripts of one frame: field lines, then the blank line
FrameScripts ==
    { [k \in 1..(Len(q) + 1) |->
         [gap |-> <<>>, frame |-> IF k <= Len(q) THEN q[k] ELSE BlankLine]] :
        q \in SeqsUpTo(FrameLineChoices, MaxFieldLines) \ {<<>>} }

\* recv.Write of the whole frame
FrameWrite ==
    /\ sent = Len(ScriptBytes(script))
    /\ CodecWrite

FrameInit ==
    /\ script \in FrameScripts
    /\ InitReceiver
    /\ timeout = 0
    /\ closed = FALSE
    /\ mtx = 0
    /\ clearTimeout = 0
    /\ msg = [t \in Threads |-> NewPingEvent]
    /\ pc = [t \in Threads |->
               IF t = Sender THEN "write" ELSE IF IsCaller(t) THEN "idle" ELSE "none"]
    /\ inv = [t \in Threads |-> 0]
    /\ ret = [op |-> "none", err |-> "none"]
    /\ expired = {}
    /\ cancelled = {}
    /\ panicked = FALSE
    /\ wire = <<>>
    /\ invLog = <<>>
    /\ wfails = 0
    /\ started = 0
    /\ NoHandler
    /\ NoHttpReceiver
    /\ NoBufferPool

FrameNext ==
    \/ SrvWrite
    \/ SrvEnd
    \/ ParseStep
    \/ ParseClose
    \/ CallReceive(FALSE)
    \/ ReceiveMsg
    \/ ReceiveEOF
    \/ FrameWrite

FrameSpec == FrameInit /\ [][FrameNext]_vars

\* the lines of the script that set the field
LinesOf(field) ==
    {k \in 1..Len(script) : \E v \in FrameValues : script[k].frame = Line(field, v)}

\* the value of the last line of the script that sets the field, <<>> without one
LastValue(field) ==
    IF LinesOf(field) = {} THEN <<>>
    ELSE LET k == CHOOSE j \in LinesOf(field) : \A i \in LinesOf(field) : i <= j
         IN  CHOOSE v \in FrameValues : script[k].frame = Line(field, v)

\* the record of the whole frame was delivered by Receive
FrameDelivered == sent = Len(ScriptBytes(script)) /\ Len(delivered) >= 1

\* recv.Write has returned
FrameWritten == pc[Sender] = "idle"

\* the stream decoder gives every field the value of its last line
LastWinsInParse ==
    FrameDelivered =>
      /\ delivered[1].Id =
           (IF LinesOf(<<"i", "d">>) = {} THEN Nil ELSE Ptr(LastValue(<<"i", "d">>)))
      /\ delivered[1].Event = LastValue(<<"e", "v", "e", "n", "t">>)
      /\ delivered[1].Data =
           (IF LinesOf(<<"d", "a", "t", "a">>) = {} THEN Nil
            ELSE Ptr(LastValue(<<"d", "a", "t", "a">>)))

\* Message.Write gives every field the value of its last line
LastWinsInWrite ==
    FrameWritten =>
      /\ msg[Recv].Id = LastValue(<<"i", "d">>)
      /\ msg[Recv].Event = LastValue(<<"e", "v", "e", "n", "t">>)
      /\ msg[Recv].Data = LastValue(<<"d", "a", "t", "a">>)

\* C23: when a field name occurs more than once in a frame, the decoded
\* record carries the value of its last occurrence, in the stream decoder and
\* in Message.Write alike, for every sequence of field lines.
C23_LastWriteWins == LastWinsInParse /\ LastWinsInWrite

\* C24: when the input ends before the blank line of a frame, the fields read
\* for that frame are not delivered as a record: a record parseMessage returns
\* together with io.EOF, with a field set, never reaches Receive.
C24_NoPartialRecord ==
    [][Len(delivered') > Len(delivered) => ~(pdone /\ ~IsAllAbsent(pmsg))]_vars

(***************************************************************************)
(* The two encoders on the same record: Message.Read of msg.go (pooled       *)
(* buffers) reads msg[Sender], Message.Read of exp/msg.go (a buffer          *)
(* allocated per record) reads msg[Recv]; each appends what it read to the   *)
(* wire under its own tag.                                                   *)
(***************************************************************************)
Pooled == 1
Allocating == 2

\* exp/msg.go, lines 18-43: the buffer Read builds when readerRemaining is 0
ExpFrameBytes(m) ==
    (IF Len(m.buffer \o FieldBytes(m)) = 0 THEN PingFrame ELSE m.buffer \o FieldBytes(m))
    \o <<NL>>

\* exp/msg.go, lines 17-54: Message.Read(b) with len(b) = n
ExpMessageRead(m, n) ==
    LET buf == IF m.readerRemaining = 0 THEN ExpFrameBytes(m) ELSE m.buffer
        k == Min(n, Len(buf))
        rest == SubSeq(buf, k + 1, Len(buf))
    IN  [m |-> [m EXCEPT !.buffer = rest, !.readerRemaining = Len(rest)],
         out |-> SubSeq(buf, 1, k),
         err |-> IF Len(rest) = 0 THEN "EOF" ELSE "nil"]

\* one Read of the pooled encoder into a slice of n bytes
PooledRead(n) ==
    /\ pc[Sender] = "copy"
    /\ LET r == MessageRead(msg[Sender], n)
       IN  /\ msg' = [msg EXCEPT ![Sender] = r.m]
           /\ wire' = wire \o Tagged(r.out, Pooled)
           /\ pc' = [pc EXCEPT ![Sender] = IF r.err = "EOF" THEN "idle" ELSE "copy"]
    /\ UNCHANGED <<timeout, closed, mtx, clearTimeout, inv, ret, expired, cancelled,
                   panicked, invLog, wfails, started>>
    /\ UNCHANGED <<recvVars, e2eVars, hrVars, poolVars>>

\* one Read of the allocating encoder into a slice of n bytes
ExpRead(n) ==
    /\ pc[Recv] = "copy"
    /\ LET r == ExpMessageRead(msg[Recv], n)
       IN  /\ msg' = [msg EXCEPT ![Recv] = r.m]
           /\ wire' = wire \o Tagged(r.out, Allocating)
           /\ pc' = [pc EXCEPT ![Recv] = IF r.err = "EOF" THEN "idle" ELSE "copy"]
    /\ UNCHANGED <<timeout, closed, mtx, clearTimeout, inv, ret, expired, cancelled,
                   panicked, invLog, wfails, started>>
    /\ UNCHANGED <<recvVars, e2eVars, hrVars, poolVars>>

EncInit ==
    /\ timeout = 0
    /\ closed = FALSE
    /\ mtx = 0
    /\ clearTimeout = 0
    /\ \E f \in CodecRecords :
         msg = [t \in Threads |-> IF t \in {Sender, Recv} THEN f ELSE NewPingEvent]
    /\ pc = [t \in Threads |->
               IF t \in {Sender, Recv} THEN "copy" ELSE IF IsCaller(t) THEN "idle" ELSE "none"]
    /\ inv = [t \in Threads |-> 0]
    /\ ret = [op |-> "none", err |-> "none"]
    /\ expired = {}
    /\ cancelled = {}
    /\ panicked = FALSE
    /\ wire = <<>>
    /\ invLog = <<>>
    /\ wfails = 0
    /\ started = 0
    /\ NoReceiver
    /\ NoHandler
    /\ NoHttpReceiver
    /\ NoBufferPool

EncNext ==
    \/ \E n \in ReadSizes : PooledRead(n)
    \/ \E n \in ReadSizes : ExpRead(n)

EncSpec == EncInit /\ [][EncNext]_vars

\* both encoders have returned io.EOF
BothEncoded == pc[Sender] = "idle" /\ pc[Recv] = "idle"

\* C25: for every record, the all-absent ping record included, the pooled
\* encoder and the allocating encoder produce the same bytes.
C25_EncodersAgree ==
    BothEncoded => InvBytes(Pooled) = InvBytes(Allocating)

(***************************************************************************)
(* The buffer pool (msg.go, lines 8-26) under Read, Reset and SetMessage of  *)
(* several messages. A message is the lengths of its fields and its reader   *)
(* state; a buffer is its length, its capacity and the size of the array     *)
(* behind it (slicing a buffer from the front lowers its capacity and keeps  *)
(* the array); m.buffer is <<>> when nil, <<buffer>> otherwise.              *)
(***************************************************************************)
\* messages that use the pool
NumPoolMsgs == 2
\* buffers the pool's New makes in a run
MaxAllocs == 2

\* msg.go, line 23: "if cap(buf) <= 4096"
PoolMaxCap == 4096
\* msg.go, line 11: "make([]byte, 0, 256)"
PoolNewCap == 256
\* the size of the buffer io.Copy reads into
IoCopyBufSize == 32768

PoolMsgs == 1..NumPoolMsgs

\* lengths of Id (left empty, as Event is) and of Data
PoolIdLens == {0}
PoolDataLens == {0, 100, 5000}
\* len(b) of the slices Read is called with
PoolReadSizes == {BenchBufSize, IoCopyBufSize}

PoolMessage(id, data) ==
    [Id |-> id, Event |-> 0, Data |-> data, readerRemaining |-> 0, buffer |-> <<>>]

\* make([]byte, 0, 256)
NewBuffer == [len |-> 0, cap |-> PoolNewCap, arr |-> PoolNewCap]

\* buf[:0] and buf[k:]
Truncated(buf) == [buf EXCEPT !.len = 0]
SlicedFrom(buf, k) == [buf EXCEPT !.len = @ - k, !.cap = @ - k]

\* a putBuffer that keeps every buffer
putBufferAlways(p, buf) == p (+) SetToBag({buf})

\* putBuffer, lines 22-26: the pool afterwards
putBuffer(p, buf) == IF buf.cap <= PoolMaxCap THEN p (+) SetToBag({buf}) ELSE p

\* getBuffer, lines 17-19: bufferPool.Get() hands out a buffer of the pool, or
\* a buffer New makes, with its length set to 0
GetChoices ==
    {[new |-> FALSE, buf |-> b] : b \in BagToSet(pool)}
    \cup (IF allocs < MaxAllocs THEN {[new |-> TRUE, buf |-> NewBuffer]} ELSE {})
GotBuffer(g) == Truncated(g.buf)
PoolAfterGet(g) == IF g.new THEN pool ELSE pool (-) SetToBag({g.buf})
AllocsAfterGet(g) == IF g.new THEN allocs + 1 ELSE allocs

\* the capacities append may give the array it allocates for `need` bytes:
\* the bytes needed, or more (the allocator rounds sizes up)
GrowCaps(need) == {need, need + need \div 8}

\* append(buf, k bytes...): in place when the capacity allows, else in a new
\* array of capacity c
Appended(buf, k, c) ==
    IF buf.len + k <= buf.cap THEN [buf EXCEPT !.len = @ + k]
    ELSE [len |-> buf.len + k, cap |-> c, arr |-> c]

\* the length of the frame Read encodes
PoolFrameLen(m) ==
    LET fields ==
          (IF m.Id > 0 THEN Len(IdPrefix) + m.Id + 1 ELSE 0)
          + (IF m.Event > 0 THEN Len(EventPrefix) + m.Event + 1 ELSE 0)
          + (IF m.Data > 0 THEN Len(DataPrefix) + m.Data + 1 ELSE 0)
    IN  IF fields = 0 THEN Len(PingFrame) ELSE fields + 1

PoolEstimatedSize(m) == m.Id + m.Event + m.Data + EstimateOverhead

\* Read, lines 135-148: n bytes of m.buffer are copied out; the buffer goes
\* back to the pool p when nothing remains
Drain(i, m, p, n) ==
    LET buf == m.buffer[1]
        k == Min(n, buf.len)
        rest == SlicedFrom(buf, k)
    IN  IF rest.len = 0
        THEN /\ pm' = [pm EXCEPT ![i] = [m EXCEPT !.readerRemaining = 0, !.buffer = <<>>]]
             /\ pool' = putBuffer(p, Truncated(rest))
        ELSE /\ pm' = [pm EXCEPT ![i] =
                         [m EXCEPT !.readerRemaining = rest.len, !.buffer = <<rest>>]]
             /\ pool' = p

\* Message.Read, lines 62-149, of message i into a slice of n bytes
PoolRead(i, n) ==
    LET m == pm[i]
        f == PoolFrameLen(m)
    IN  IF m.readerRemaining # 0
        THEN Drain(i, m, pool, n) /\ UNCHANGED allocs
        ELSE IF PoolEstimatedSize(m) <= SmallMax
        THEN IF n < f
             THEN \E g \in GetChoices : \E c \in GrowCaps(f - n) :
                    /\ pm' = [pm EXCEPT ![i] =
                                [m EXCEPT !.readerRemaining = f - n,
                                          !.buffer = <<Appended(GotBuffer(g), f - n, c)>>]]
                    /\ pool' = PoolAfterGet(g)
                    /\ allocs' = AllocsAfterGet(g)
             ELSE UNCHANGED <<pm, pool, allocs>>
        ELSE \E g \in GetChoices : \E c \in GrowCaps(f) :
               /\ Drain(i, [m EXCEPT !.buffer = <<Appended(GotBuffer(g), f, c)>>],
                        PoolAfterGet(g), n)
               /\ allocs' = AllocsAfterGet(g)

\* Reset, lines 43-52: the message afterwards, and the pool
ResetMessage(m) == [m EXCEPT !.Id = 0, !.Event = 0, !.Data = 0, !.readerRemaining = 0,
                             !.buffer = <<>>]
PoolAfterReset(m) ==
    IF m.buffer # <<>> THEN putBuffer(pool, Truncated(m.buffer[1])) ELSE pool

\* an application goroutine calls Read on message i
MsgRead(i, n) ==
    /\ PoolRead(i, n)
    /\ UNCHANGED <<pusherVars, recvVars, e2eVars, hrVars>>

\* an application goroutine calls Reset on message i
MsgReset(i) ==
    /\ pm' = [pm EXCEPT ![i] = ResetMessage(pm[i])]
    /\ pool' = PoolAfterReset(pm[i])
    /\ UNCHANGED allocs
    /\ UNCHANGED <<pusherVars, recvVars, e2eVars, hrVars>>

\* SetMessage, lines 55-60, on message i
MsgSetMessage(i, id, data) ==
    /\ pm' = [pm EXCEPT ![i] = [ResetMessage(pm[i]) EXCEPT !.Id = id, !.Data = data]]
    /\ pool' = PoolAfterReset(pm[i])
    /\ UNCHANGED allocs
    /\ UNCHANGED <<pusherVars, recvVars, e2eVars, hrVars>>

PoolInit ==
    /\ pool = <<>>
    /\ pm \in [PoolMsgs -> {PoolMessage(id, data) : id \in PoolIdLens, data \in PoolDataLens}]
    /\ allocs = 0
    /\ timeout = 0
    /\ InitPusher
    /\ NoReceiver
    /\ NoHandler
    /\ NoHttpReceiver

PoolNext ==
    \/ \E i \in PoolMsgs, n \in PoolReadSizes : MsgRead(i, n)
    \/ \E i \in PoolMsgs : MsgReset(i)
    \/ \E i \in PoolMsgs, id \in PoolIdLens, data \in PoolDataLens : MsgSetMessage(i, id, data)

PoolSpec == PoolInit /\ [][PoolNext]_vars

C27_CallsReturn ==
    /\ \A t \in Threads : (pc[t] = "copy") ~> (pc[t] = Returned(t))
    /\ \A i \in Invs :
         (pc[TimerOf(i)] \in {"ping", "push", "copy"}) ~> (pc[TimerOf(i)] = "exit")
    /\ (mtx # 0) ~> (mtx = 0 /\ \A c \in Callers : ENABLED Close(c))

\* a timer has fired and its ping waits for the lock, which a Push of the
\* application holds, while the other application goroutine is free to call
\* Close
C27_PingWaitsForPush ==
    \E i \in Invs :
        /\ pc[TimerOf(i)] \in {"ping", "push"}
        /\ mtx \in Callers
        /\ \E c \in Callers : pc[c] = "idle"

(***************************************************************************)
(* The keepalive timer, under Spec.                                          *)
(***************************************************************************)
\* C28: an automatic ping is written only by a timer that expired with no
\* Push or Close since it was armed, never by a timer a later Push or Close
\* has cancelled: the goroutine of the timer armed by invocation i writes
\* only as invocation i + 1, and only while timer i is not cancelled.
C28_CancelledTimerSilent ==
    \A j \in 1..Len(invLog) :
        (invLog[j].th \in TimerThreads /\ InvBytes(j) # <<>>) =>
            invLog[j].th = TimerOf(j - 1)

\* C29: Push arms the new keepalive timer only after a write that succeeded:
\* when a Push of the application returns a write error, the timer of that
\* invocation is not armed, so that no automatic ping follows the failed push.
C29_NoTimerAfterFailedPush ==
    [][\A c \in Callers :
         (pc[c] = "copy" /\ pc'[c] = "idle" /\ ret'.err = "werr") =>
             inv[c] \notin ArmedTimers']_vars

\* the timers whose goroutine waits in its select with the cancel channel open
PendingTimers == ArmedTimers \ cancelled

\* C30: at most one keepalive timer is armed and not cancelled, and none is
\* once the Pusher is closed.
C30_OneTimerPending ==
    /\ Cardinality(PendingTimers) <= 1
    /\ closed => PendingTimers = {}

\* two timer goroutines wait in their select: the one a second Push has
\* cancelled and the one that Push armed
C30_CancelledAndArmed ==
    /\ pc[TimerOf(1)] = "select"
    /\ 1 \in cancelled
    /\ PendingTimers = {2}

(***************************************************************************)
(* Successive Receive calls on one receiver, under RecvSpec.                *)
(***************************************************************************)
\* C31: the end of the stream is sticky: once a Receive has returned io.EOF,
\* every later Receive whose context is not cancelled returns io.EOF and no
\* record, and a Receive that waits can return it at once.
C31_EndOfStreamSticky ==
    rhist.eof =>
        /\ (rpc = "idle" /\ ~ctxDone) => (rres.err = "EOF" /\ rres.msg = NoRecord)
        /\ rpc = "wait" => ENABLED ReceiveEOF

\* a Receive returned io.EOF after records, and the next Receive, with a live
\* context, returned io.EOF again
C31_SecondEOF ==
    /\ rhist.eof
    /\ rhist.prev = "EOF"
    /\ rpc = "idle"
    /\ ~ctxDone
    /\ rres = EOFResult
    /\ Len(delivered) >= 1

\* C32: a Receive that returns the cancellation error takes nothing from the
\* Parse goroutine: while the stream is open, the record the next Receive
\* returns is the one that follows, in the order of the wire, the records
\* returned before the cancelled call.
C32_CancelLosesNothing ==
    (rhist.prev = "ctx" /\ rpc = "idle" /\ rres.err = "nil" /\ src = "open") =>
        /\ IsPrefix(delivered, ParseAll(ScriptBytes(script), 0))
        /\ rres.msg = <<ParseAll(ScriptBytes(script), 0)[Len(delivered)]>>

\* the first record was returned, the next Receive was cancelled, and the
\* Receive after it, with a live context, returned the second record
C32_RecordAfterCancel ==
    /\ rhist.prev = "ctx"
    /\ ~rhist.pre
    /\ ~ctxDone
    /\ rpc = "idle"
    /\ rres.err = "nil"
    /\ src = "open"
    /\ Len(delivered) = 2

\* C33: a Receive called with a context that is already cancelled returns the
\* cancellation error and no record, also when the Parse goroutine has a
\* record ready to hand over.
C33_CancelledBeforeCall ==
    (rhist.pre /\ rpc = "idle") => rres = CancelResult

(***************************************************************************)
(* Message.Read called with slices of any size (msg.go, lines 62-149): the   *)
(* records of CodecInit, read to io.EOF.                                     *)
(***************************************************************************)
\* the largest of the short slices
MaxChunk == 3

\* the sizes of the slices: short ones, the buffer of io.Copy in the model of
\* the Pusher, the buffer of the benchmark
ChunkSizes == (1..MaxChunk) \cup ReadSizes

ChunkNext == \E n \in ChunkSizes : CodecRead(n)

ChunkSpec == CodecInit /\ [][ChunkNext]_vars

\* C34: whatever the sizes (at least 1) of the slices of successive Read
\* calls, and whether the record takes the small-message or the pooled path,
\* the bytes handed out before io.EOF are a proper prefix of the encoding of
\* the record, and the call that returns io.EOF completes it: io.EOF comes
\* with the last byte, not before and not after.
C34_ChunkedRead ==
    LET m == msg[Sender]
        encoding == FrameBytes(NewMessage(m.Id, m.Event, m.Data))
    IN  /\ pc[Sender] = "copy" =>
             (IsPrefix(WireBytes, encoding) /\ Len(WireBytes) < Len(encoding))
        /\ pc[Sender] = "write" => WireBytes = encoding

\* a small record with id and data was read in slices that did not hold it,
\* up to its last byte, which the next Read will return with io.EOF
C34_LastByteLeft ==
    /\ pc[Sender] = "copy"
    /\ EstimatedSize(msg[Sender]) <= SmallMax
    /\ msg[Sender].Id # <<>>
    /\ msg[Sender].Data # <<>>
    /\ msg[Sender].readerRemaining = 1
    /\ Len(WireBytes) = Len(FrameBytes(msg[Sender])) - 1

(***************************************************************************)
(* One Message pushed again and again, under Spec: an application goroutine *)
(* keeps its Message and assigns its fields before every Push.               *)
(***************************************************************************)
\* C35: every Push of an application goroutine that returns nil has written
\* the encoding of the fields its Message had when Push was called, from the
\* first byte of the frame, whether the earlier pushes of that Message
\* succeeded or failed in the middle of a write.
C35_ReusedMessage ==
    [][\A c \in Callers :
          (pc[c] = "copy" /\ pc'[c] = "idle" /\ ret' = [op |-> "Push", err |-> "nil"]) =>
              LET i == inv[c]
                  mine == SelectSeq(wire', LAMBDA e : e.inv = i)
              IN  [k \in 1..Len(mine) |-> mine[k].b] = invLog[i].frame]_vars

====
